---- MODULE Spec2Model ----
(***************************************************************************)
(* Model of the wallet risk scoring engine (services/risk_scoring).        *)
(*                                                                         *)
(* Numbers.  The program computes with binary floats.  The model computes  *)
(* with exact decimal fixed point: a score is an integer number of         *)
(* 1/100000 points (Pt(1) is one point), so every product with a weight    *)
(* of the configuration (0.25, 0.30, 0.6, 0.7, ...) is exact for the       *)
(* inputs used here, which are multiples of 0.01 point.  The rounding      *)
(* error of the floats themselves (about 1e-14 point) is outside the model.*)
(* Ratios (successful / total, ...) are compared with their thresholds by  *)
(* cross-multiplication, which is what the float comparison decides for    *)
(* the small integers used here.                                           *)
(*                                                                         *)
(* Dictionaries are records.  A key that may be missing is modelled by the *)
(* value its .get(key, default) would yield, except where the code tests   *)
(* for the key itself ("error" in patterns, "protocols" in analysis).      *)
(* A reason string is modelled by its text without the formatted number.   *)
(***************************************************************************)
EXTENDS Integers, Sequences, FiniteSets, TLC

VARIABLES
    patterns,           \* argument: TransactionPatterns of the wallet
    protocol_analysis,  \* argument: ProtocolAnalysis of the wallet
    balances,           \* argument: BalanceData of the wallet
    gemini,             \* what the LLM collaborator does when it is called
    component_result,   \* last return of an analyzer's calculate_risk
    rec_args,           \* arguments of generate_recommendations
    rec_result,         \* last return of generate_recommendations
    assessment,         \* last return of calculate_overall_risk_score
    locals,             \* the local variables of that call when it ended
    first_call,         \* the first call of a session: its arguments and return
    calls,              \* number of calls made on the engine
    llm_call            \* where the request to the LLM service stands

vars == <<patterns, protocol_analysis, balances, gemini, component_result,
          rec_args, rec_result, assessment, locals, first_call, calls, llm_call>>

----------------------------------------------------------------------------
(* Fixed-point arithmetic *)

\* n points as a score
Pt(n) == n * 100000

\* n hundredths of a point as a score
Cp(n) == n * 1000

Min2(a, b) == IF a <= b THEN a ELSE b
Max2(a, b) == IF a >= b THEN a ELSE b

\* max(0, min(100, risk_score))
Clamp(risk_score) == Max2(Pt(0), Min2(Pt(100), risk_score))

\* round(x, 2): to the nearest hundredth of a point, an exact tie to the even one
Round2(x) ==
    LET q == x \div 1000
        r == x % 1000
    IN  IF r > 500 THEN (q + 1) * 1000
        ELSE IF r < 500 THEN q * 1000
        ELSE IF q % 2 = 0 THEN q * 1000 ELSE (q + 1) * 1000

\* num / den < pct / 100, for den > 0
RatioLT(num, den, pct) == num * 100 < pct * den
\* num / den > pct / 100, for den > 0
RatioGT(num, den, pct) == num * 100 > pct * den

\* risk_score, reasons = ... : what every _analyze_* pass returns
Step(risk_score, reasons) ==
    [raised |-> FALSE, risk_score |-> risk_score, reasons |-> reasons]

\* the pass ended with an exception
StepRaised == [raised |-> TRUE, risk_score |-> 0, reasons |-> <<>>]

\* a returned ComponentResult dictionary: the keys it holds, and their values
Returned(keys, risk_score, reasons) ==
    [raised |-> FALSE, keys |-> keys, risk_score |-> risk_score, reasons |-> reasons]

\* the call ended with an exception instead of a return value
Raised == [raised |-> TRUE, keys |-> {}, risk_score |-> 0, reasons |-> <<>>]

AllKeys == {"risk_score", "reasons", "metrics"}

----------------------------------------------------------------------------
(* config.py *)

\* weights in hundredths
RISK_WEIGHTS ==
    [transaction_patterns |-> 25, protocol_interactions |-> 30,
     asset_concentration |-> 20, activity_frequency |-> 15, failure_rate |-> 10]

\* rates and ratios in hundredths, activity frequency in hundredths of tx/day,
\* gas price in Gwei
TRANSACTION_THRESHOLDS ==
    [low_success_rate |-> 70, moderate_success_rate |-> 85, high_success_rate |-> 95,
     high_activity_frequency |-> 1000, very_high_activity_frequency |-> 2000,
     low_activity_frequency |-> 10,
     high_value_tx_ratio |-> 30, very_high_value_tx_ratio |-> 50,
     high_contract_ratio |-> 70, very_high_contract_ratio |-> 90,
     low_contract_ratio |-> 10,
     recent_activity_threshold |-> 50, high_gas_price |-> 100,
     low_address_diversity |-> 10]

\* TVL in millions of dollars, penalties in points
PROTOCOL_THRESHOLDS ==
    [single_protocol_penalty |-> 15, low_diversification_penalty |-> 5,
     diversification_bonus |-> 10, low_diversification_threshold |-> 3,
     very_high_tvl |-> 50000, high_tvl |-> 10000, medium_tvl |-> 1000, low_tvl |-> 100,
     very_high_tvl_bonus |-> 15, high_tvl_bonus |-> 10, medium_tvl_bonus |-> 5,
     low_tvl_penalty |-> 15, very_high_risk_penalty |-> 5]

\* ETH amounts in thousandths of an ETH, penalties in points
ASSET_THRESHOLDS ==
    [single_token_penalty |-> 20, low_diversification_penalty |-> 10,
     good_diversification_bonus |-> 5, high_diversification_bonus |-> 10,
     low_diversification_count |-> 3, good_diversification_count |-> 10,
     very_large_eth_holdings |-> 1000000, large_eth_holdings |-> 100000,
     significant_eth_holdings |-> 10000, very_low_eth_balance |-> 10,
     very_large_eth_penalty |-> 25, large_eth_penalty |-> 15,
     significant_eth_penalty |-> 5, very_low_eth_penalty |-> 10,
     stablecoin_bonus_max |-> 15, stablecoin_bonus_per_token |-> 5]

\* gas price in Gwei, flow ratios in tenths, amounts in ETH, diversity ratios in
\* hundredths, ages in days
BEHAVIORAL_THRESHOLDS ==
    [very_high_gas_price |-> 200, high_gas_price |-> 100, low_gas_price |-> 20,
     very_high_gas_penalty |-> 20, high_gas_penalty |-> 10, low_gas_bonus |-> 5,
     heavy_outflow_ratio |-> 30, moderate_outflow_ratio |-> 15, accumulation_ratio |-> 20,
     heavy_outflow_penalty |-> 20, moderate_outflow_penalty |-> 5, accumulation_bonus |-> 5,
     very_large_transaction |-> 100, large_transaction |-> 10,
     very_large_tx_penalty |-> 15, large_tx_penalty |-> 5,
     very_concentrated_interactions |-> 10, concentrated_interactions |-> 30,
     diverse_interactions |-> 70,
     very_concentrated_penalty |-> 15, concentrated_penalty |-> 5, diverse_bonus |-> 5,
     very_new_wallet_days |-> 30, new_wallet_days |-> 90, old_wallet_days |-> 730,
     very_new_wallet_penalty |-> 15, new_wallet_penalty |-> 5, old_wallet_bonus |-> 10]

\* blend weights in tenths
LLM_CONFIG == [timeout_seconds |-> 30, rule_based_weight |-> 6, llm_weight |-> 4]

\* a token symbol is the sequence of its characters
STABLECOIN_SYMBOLS ==
    {<<"u","s","d","t">>, <<"u","s","d","c">>, <<"d","a","i">>, <<"b","u","s","d">>,
     <<"f","r","a","x">>, <<"t","u","s","d">>, <<"u","s","d","p">>, <<"g","u","s","d">>}

RISK_LEVEL_DESCRIPTIONS ==
    [VERY_HIGH |-> "Extremely risky wallet with multiple severe red flags",
     HIGH |-> "High-risk wallet requiring significant caution",
     MEDIUM |-> "Medium risk with some concerning factors",
     LOW |-> "Low risk with generally safe behavior patterns",
     VERY_LOW |-> "Very low risk, highly conservative wallet behavior"]

----------------------------------------------------------------------------
(* components/transaction_patterns.py *)

Transaction_analyze_success_rate(p, total_txs, risk_score, reasons) ==
    LET success_txs == p.successful_transactions
        th == TRANSACTION_THRESHOLDS
    IN  IF RatioLT(success_txs, total_txs, th.low_success_rate)
        THEN Step(risk_score + Pt(25), Append(reasons, "Low success rate"))
        ELSE IF RatioLT(success_txs, total_txs, th.moderate_success_rate)
        THEN Step(risk_score + Pt(10), Append(reasons, "Moderate success rate"))
        ELSE IF RatioGT(success_txs, total_txs, th.high_success_rate)
        THEN Step(risk_score - Pt(10), Append(reasons, "High success rate"))
        ELSE Step(risk_score, reasons)

Transaction_analyze_activity_frequency(p, risk_score, reasons) ==
    LET frequency == p.time_analysis.activity_frequency
        th == TRANSACTION_THRESHOLDS
    IN  IF frequency > th.very_high_activity_frequency
        THEN Step(risk_score + Pt(15), Append(reasons, "Very high activity"))
        ELSE IF frequency > th.high_activity_frequency
        THEN Step(risk_score + Pt(5), Append(reasons, "High activity"))
        ELSE IF frequency < th.low_activity_frequency
        THEN Step(risk_score + Pt(15), Append(reasons, "Very low activity"))
        ELSE IF 100 <= frequency /\ frequency <= 500
        THEN Step(risk_score - Pt(5), Append(reasons, "Normal activity"))
        ELSE Step(risk_score, reasons)

Transaction_analyze_high_value_transactions(p, total_txs, risk_score, reasons) ==
    LET high_value_txs == p.high_value_transactions
        th == TRANSACTION_THRESHOLDS
    IN  IF RatioGT(high_value_txs, total_txs, th.very_high_value_tx_ratio)
        THEN Step(risk_score + Pt(15), Append(reasons, "High value transaction ratio"))
        ELSE IF RatioGT(high_value_txs, total_txs, th.high_value_tx_ratio)
        THEN Step(risk_score + Pt(5), Append(reasons, "Moderate high-value transactions"))
        ELSE Step(risk_score, reasons)

Transaction_analyze_contract_interactions(p, total_txs, risk_score, reasons) ==
    LET contract_interactions == p.contract_interactions
        th == TRANSACTION_THRESHOLDS
    IN  IF RatioGT(contract_interactions, total_txs, th.very_high_contract_ratio)
        THEN Step(risk_score + Pt(15), Append(reasons, "Very high DeFi usage"))
        ELSE IF RatioGT(contract_interactions, total_txs, th.high_contract_ratio)
        THEN Step(risk_score + Pt(5), Append(reasons, "High DeFi usage"))
        ELSE IF RatioLT(contract_interactions, total_txs, th.low_contract_ratio)
        THEN Step(risk_score - Pt(5), Append(reasons, "Low DeFi usage"))
        ELSE Step(risk_score, reasons)

Transaction_analyze_recent_activity(p, total_txs, risk_score, reasons) ==
    LET recent_activity == p.recent_activity
        th == TRANSACTION_THRESHOLDS
    IN  IF recent_activity = 0 /\ total_txs > 10
        THEN Step(risk_score + Pt(20), Append(reasons, "No recent activity (30 days)"))
        ELSE IF recent_activity > th.recent_activity_threshold
        THEN Step(risk_score + Pt(10), Append(reasons, "Very active recently"))
        ELSE Step(risk_score, reasons)

Transaction_analyze_gas_usage(p, risk_score, reasons) ==
    LET avg_gas_price == p.gas_analysis.avg_gas_price
    IN  IF avg_gas_price > TRANSACTION_THRESHOLDS.high_gas_price
        THEN Step(risk_score + Pt(10), Append(reasons, "High gas prices"))
        ELSE Step(risk_score, reasons)

Transaction_analyze_address_diversity(p, total_txs, risk_score, reasons) ==
    LET unique_addresses == p.unique_addresses
    IN  IF total_txs > 0
           /\ RatioLT(unique_addresses, total_txs,
                      TRANSACTION_THRESHOLDS.low_address_diversity)
        THEN Step(risk_score + Pt(10), Append(reasons, "Low address diversity"))
        ELSE Step(risk_score, reasons)

\* a return statement without max(0, min(100, ...))
ReturnUnclamped(risk_score, reasons) ==
    Returned(AllKeys, risk_score, reasons)

\* the return statement of calculate_risk: the score is clamped
TransactionReturn(risk_score, reasons) ==
    Returned(AllKeys, Clamp(risk_score), reasons)

\* the seven passes over the running score, which starts at 50.0
\* passes that stop at the first rule group that adds a penalty
TransactionPassesEarlyExit(p, total_txs) ==
    LET s1 == Transaction_analyze_success_rate(p, total_txs, Pt(50), <<>>)
        s2 == Transaction_analyze_activity_frequency(p, s1.risk_score, s1.reasons)
    IN  IF s1.risk_score > Pt(50) THEN s1 ELSE s2

TransactionPasses(p, total_txs) ==
    LET s1 == Transaction_analyze_success_rate(p, total_txs, Pt(50), <<>>)
        s2 == Transaction_analyze_activity_frequency(p, s1.risk_score, s1.reasons)
        s3 == Transaction_analyze_high_value_transactions(
                  p, total_txs, s2.risk_score, s2.reasons)
        s4 == Transaction_analyze_contract_interactions(
                  p, total_txs, s3.risk_score, s3.reasons)
        s5 == Transaction_analyze_recent_activity(
                  p, total_txs, s4.risk_score, s4.reasons)
        s6 == Transaction_analyze_gas_usage(p, s5.risk_score, s5.reasons)
    IN  Transaction_analyze_address_diversity(p, total_txs, s6.risk_score, s6.reasons)

\* a calculate_risk that tests for a zero count alone, not for the error marker
TransactionCalculateRiskZeroOnly(p) ==
    LET total_txs == p.total_transactions IN
    IF total_txs = 0
    THEN Returned({"risk_score", "reasons"}, Pt(90),
                  <<"Inactive wallet - no transactions">>)
    ELSE LET s == TransactionPasses(p, total_txs)
         IN  TransactionReturn(s.risk_score, s.reasons)

TransactionPatternAnalyzer_calculate_risk(p) ==
    IF p.error
    THEN Returned({"risk_score", "reasons"}, Pt(90), <<"No transaction data available">>)
    ELSE LET total_txs == p.total_transactions IN
         IF total_txs = 0
         THEN Returned({"risk_score", "reasons"}, Pt(90),
                       <<"Inactive wallet - no transactions">>)
         ELSE LET s == TransactionPasses(p, total_txs)
              IN  TransactionReturn(s.risk_score, s.reasons)

----------------------------------------------------------------------------
(* components/protocol_risk.py *)

\* high_risk_count / total_protocols divides by zero when total_protocols is 0;
\* a quotient that is no multiple of the score unit is cut to it
Protocol_analyze_high_risk_protocols(pa, risk_score, reasons) ==
    LET high_risk_count == pa.high_risk_protocols
        total_protocols == pa.total_protocols
    IN  IF high_risk_count > 0
        THEN IF total_protocols = 0
             THEN StepRaised
             ELSE LET penalty == Min2((high_risk_count * Pt(30)) \div total_protocols,
                                      Pt(30))
                  IN  Step(risk_score + penalty, Append(reasons, "High-risk protocols"))
        ELSE Step(risk_score, reasons)

Protocol_analyze_diversification(pa, risk_score, reasons) ==
    LET diversification == pa.diversification_score
        th == PROTOCOL_THRESHOLDS
    IN  IF diversification = 1
        THEN Step(risk_score + Pt(th.single_protocol_penalty),
                  Append(reasons, "Single protocol category"))
        ELSE IF diversification < th.low_diversification_threshold
        THEN Step(risk_score + Pt(th.low_diversification_penalty),
                  Append(reasons, "Low diversification: categories"))
        ELSE Step(risk_score - Pt(th.diversification_bonus),
                  Append(reasons, "Good diversification: categories"))

Protocol_analyze_tvl_factor(pa, risk_score, reasons) ==
    LET total_tvl == pa.total_tvl_interacted
        th == PROTOCOL_THRESHOLDS
    IN  IF total_tvl > th.very_high_tvl
        THEN Step(risk_score - Pt(th.very_high_tvl_bonus),
                  Append(reasons, "Very high TVL protocols"))
        ELSE IF total_tvl > th.high_tvl
        THEN Step(risk_score - Pt(th.high_tvl_bonus),
                  Append(reasons, "High TVL protocols"))
        ELSE IF total_tvl > th.medium_tvl
        THEN Step(risk_score - Pt(th.medium_tvl_bonus),
                  Append(reasons, "Medium TVL protocols"))
        ELSE IF total_tvl < th.low_tvl
        THEN Step(risk_score + Pt(th.low_tvl_penalty),
                  Append(reasons, "Low TVL protocols"))
        ELSE Step(risk_score, reasons)

\* a concentration pass that adds the upstream penalty to the score too
ProtocolConcentrationAdds(pa, risk_score, reasons) ==
    IF pa.concentration_penalty > 0
    THEN Step(risk_score + Pt(pa.concentration_penalty),
              Append(reasons, "Protocol concentration risk"))
    ELSE Step(risk_score, reasons)

Protocol_analyze_concentration(pa, risk_score, reasons) ==
    IF pa.concentration_penalty > 0
    THEN Step(risk_score, Append(reasons, "Protocol concentration risk"))
    ELSE Step(risk_score, reasons)

Protocol_analyze_risk_distribution(pa, risk_score, reasons) ==
    LET very_high_count == pa.risk_distribution.very_high
    IN  IF very_high_count > 0
        THEN Step(risk_score
                    + very_high_count * Pt(PROTOCOL_THRESHOLDS.very_high_risk_penalty),
                  Append(reasons, "Very high-risk protocols"))
        ELSE Step(risk_score, reasons)

\* a return statement that caps the score at 100 and has no floor
ProtocolReturnCappedOnly(risk_score, reasons) ==
    Returned(AllKeys, Min2(risk_score, Pt(100)), reasons)

\* the return statement of calculate_risk: the score is clamped
ProtocolReturn(risk_score, reasons) ==
    Returned(AllKeys, Clamp(risk_score), reasons)

\* the five passes over the running score, which starts at the raw average risk;
\* an exception of the first pass ends them
ProtocolPasses(pa) ==
    LET avg_risk == pa.raw_average_risk
        s1 == Protocol_analyze_high_risk_protocols(pa, avg_risk, <<>>)
        s2 == Protocol_analyze_diversification(pa, s1.risk_score, s1.reasons)
        s3 == Protocol_analyze_tvl_factor(pa, s2.risk_score, s2.reasons)
        s4 == Protocol_analyze_concentration(pa, s3.risk_score, s3.reasons)
        s5 == Protocol_analyze_risk_distribution(pa, s4.risk_score, s4.reasons)
    IN  IF s1.raised THEN StepRaised ELSE s5

\* a calculate_risk that tests for the key "protocols" alone, not for an empty list
ProtocolCalculateRiskKeyOnly(pa) ==
    IF pa.empty \/ ~pa.has_protocols
    THEN Returned(AllKeys, Pt(0),
                  <<"No DeFi protocol interactions detected - Low Risk">>)
    ELSE LET s == ProtocolPasses(pa)
         IN  IF s.raised THEN Raised ELSE ProtocolReturn(s.risk_score, s.reasons)

\* pa.empty: the argument is None or {} ; pa.has_protocols: it has the key "protocols"
ProtocolRiskAnalyzer_calculate_risk(pa) ==
    IF pa.empty \/ ~pa.has_protocols
    THEN Returned(AllKeys, Pt(0),
                  <<"No DeFi protocol interactions detected - Low Risk">>)
    ELSE IF pa.protocols = <<>>
    THEN Returned(AllKeys, Pt(0), <<"No DeFi protocol interactions - Low Risk">>)
    ELSE LET s == ProtocolPasses(pa)
         IN  IF s.raised THEN Raised ELSE ProtocolReturn(s.risk_score, s.reasons)

----------------------------------------------------------------------------
(* components/asset_concentration.py *)

\* str.lower() of one character
LowerChar(c) ==
    CASE c = "A" -> "a" [] c = "B" -> "b" [] c = "C" -> "c" [] c = "D" -> "d"
      [] c = "E" -> "e" [] c = "F" -> "f" [] c = "G" -> "g" [] c = "H" -> "h"
      [] c = "I" -> "i" [] c = "N" -> "n" [] c = "P" -> "p" [] c = "R" -> "r"
      [] c = "S" -> "s" [] c = "T" -> "t" [] c = "U" -> "u" [] c = "W" -> "w"
      [] c = "X" -> "x" [] OTHER -> c

\* str.lower() of a string, a string being the sequence of its characters
Lower(str) == [i \in 1..Len(str) |-> LowerChar(str[i])]

\* needle in haystack
IsSubstring(needle, haystack) ==
    \E i \in 0..(Len(haystack) - Len(needle)) :
        \A j \in 1..Len(needle) : haystack[i + j] = needle[j]

\* any(stable in token.get("token_symbol", "").lower() for stable in ...)
IsStablecoin(token) ==
    \E stable \in STABLECOIN_SYMBOLS : IsSubstring(stable, Lower(token.token_symbol))

RECURSIVE CountStable(_)
\* sum(1 for token in tokens if ...)
CountStable(tokens) ==
    IF tokens = <<>> THEN 0
    ELSE (IF IsStablecoin(Head(tokens)) THEN 1 ELSE 0) + CountStable(Tail(tokens))

Asset_analyze_diversification(eth_balance, token_count, risk_score, reasons) ==
    LET th == ASSET_THRESHOLDS
    IN  IF token_count = 0
        THEN IF eth_balance > 0
             THEN Step(risk_score - Pt(15),
                       Append(reasons, "ETH-only portfolio (conservative)"))
             ELSE Step(risk_score + Pt(30),
                       Append(reasons, "No significant assets detected"))
        ELSE IF token_count = 1
        THEN Step(risk_score + Pt(th.single_token_penalty),
                  Append(reasons, "Single token concentration"))
        ELSE IF token_count < th.low_diversification_count
        THEN Step(risk_score + Pt(th.low_diversification_penalty),
                  Append(reasons, "Low diversification: tokens"))
        ELSE IF token_count < th.good_diversification_count
        THEN Step(risk_score - Pt(th.good_diversification_bonus),
                  Append(reasons, "Good diversification: tokens"))
        ELSE Step(risk_score - Pt(th.high_diversification_bonus),
                  Append(reasons, "High diversification: tokens"))

\* an ETH pass without the penalty for a dust balance
AssetEthHoldingsNoDust(eth_balance, risk_score, reasons) ==
    LET th == ASSET_THRESHOLDS
    IN  IF eth_balance > th.very_large_eth_holdings
        THEN Step(risk_score + Pt(th.very_large_eth_penalty),
                  Append(reasons, "Very large ETH holdings"))
        ELSE IF eth_balance > th.large_eth_holdings
        THEN Step(risk_score + Pt(th.large_eth_penalty),
                  Append(reasons, "Large ETH holdings"))
        ELSE IF eth_balance > th.significant_eth_holdings
        THEN Step(risk_score + Pt(th.significant_eth_penalty),
                  Append(reasons, "Significant ETH holdings"))
        ELSE Step(risk_score, reasons)

Asset_analyze_eth_holdings(eth_balance, risk_score, reasons) ==
    LET th == ASSET_THRESHOLDS
    IN  IF eth_balance > th.very_large_eth_holdings
        THEN Step(risk_score + Pt(th.very_large_eth_penalty),
                  Append(reasons, "Very large ETH holdings"))
        ELSE IF eth_balance > th.large_eth_holdings
        THEN Step(risk_score + Pt(th.large_eth_penalty),
                  Append(reasons, "Large ETH holdings"))
        ELSE IF eth_balance > th.significant_eth_holdings
        THEN Step(risk_score + Pt(th.significant_eth_penalty),
                  Append(reasons, "Significant ETH holdings"))
        ELSE IF eth_balance < th.very_low_eth_balance
        THEN Step(risk_score + Pt(th.very_low_eth_penalty),
                  Append(reasons, "Very low ETH balance"))
        ELSE Step(risk_score, reasons)

\* a stablecoin pass whose bonus has no maximum
AssetTokenCompositionUncapped(tokens, risk_score, reasons) ==
    IF tokens = <<>>
    THEN Step(risk_score, reasons)
    ELSE LET stablecoin_count == CountStable(tokens)
             th == ASSET_THRESHOLDS
         IN  IF stablecoin_count > 0
             THEN Step(risk_score - Pt(stablecoin_count * th.stablecoin_bonus_per_token),
                       Append(reasons, "Stablecoin exposure"))
             ELSE Step(risk_score, reasons)

Asset_analyze_token_composition(tokens, risk_score, reasons) ==
    IF tokens = <<>>
    THEN Step(risk_score, reasons)
    ELSE LET stablecoin_count == CountStable(tokens)
             th == ASSET_THRESHOLDS
         IN  IF stablecoin_count > 0
             THEN LET bonus == Min2(stablecoin_count * th.stablecoin_bonus_per_token,
                                    th.stablecoin_bonus_max)
                  IN  Step(risk_score - Pt(bonus),
                           Append(reasons, "Stablecoin exposure"))
             ELSE Step(risk_score, reasons)

\* the return statement of calculate_risk: the score is clamped
AssetReturn(risk_score, reasons) ==
    Returned(AllKeys, Clamp(risk_score), reasons)

\* the three passes over the running score, which starts at 50
AssetPasses(b) ==
    LET eth_balance == b.eth_balance
        tokens == b.tokens
        token_count == Len(tokens)
        s1 == Asset_analyze_diversification(eth_balance, token_count, Pt(50), <<>>)
        s2 == Asset_analyze_eth_holdings(eth_balance, s1.risk_score, s1.reasons)
    IN  Asset_analyze_token_composition(tokens, s2.risk_score, s2.reasons)

\* a calculate_risk that runs the ETH pass before the diversification pass
AssetCalculateRiskEthFirst(b) ==
    LET s1 == Asset_analyze_eth_holdings(b.eth_balance, Pt(50), <<>>)
        s2 == Asset_analyze_diversification(b.eth_balance, Len(b.tokens),
                                            s1.risk_score, s1.reasons)
        s3 == Asset_analyze_token_composition(b.tokens, s2.risk_score, s2.reasons)
    IN  AssetReturn(s3.risk_score, s3.reasons)

AssetConcentrationAnalyzer_calculate_risk(b) ==
    LET s == AssetPasses(b)
    IN  AssetReturn(s.risk_score, s.reasons)

----------------------------------------------------------------------------
(* components/behavioral_patterns.py *)

Behavioral_analyze_gas_patterns(p, risk_score, reasons) ==
    LET avg_gas_price == p.gas_analysis.avg_gas_price
        th == BEHAVIORAL_THRESHOLDS
    IN  IF avg_gas_price > th.very_high_gas_price
        THEN Step(risk_score + Pt(th.very_high_gas_penalty),
                  Append(reasons, "Very high gas usage"))
        ELSE IF avg_gas_price > th.high_gas_price
        THEN Step(risk_score + Pt(th.high_gas_penalty),
                  Append(reasons, "High gas usage"))
        ELSE IF avg_gas_price < th.low_gas_price
        THEN Step(risk_score - Pt(th.low_gas_bonus),
                  Append(reasons, "Efficient gas usage"))
        ELSE Step(risk_score, reasons)

\* value_out > value_in * ratio, the ratio in tenths
\* a value-flow pass whose three comparisons include the boundary
BehavioralValueFlowInclusive(p, risk_score, reasons) ==
    LET value_in == p.value_analysis.total_value_in
        value_out == p.value_analysis.total_value_out
        th == BEHAVIORAL_THRESHOLDS
    IN  IF value_out * 10 >= value_in * th.heavy_outflow_ratio
        THEN Step(risk_score + Pt(th.heavy_outflow_penalty),
                  Append(reasons, "Heavy fund outflow pattern"))
        ELSE IF value_out * 10 >= value_in * th.moderate_outflow_ratio
        THEN Step(risk_score + Pt(th.moderate_outflow_penalty),
                  Append(reasons, "Moderate outflow pattern"))
        ELSE IF value_in * 10 >= value_out * th.accumulation_ratio
        THEN Step(risk_score - Pt(th.accumulation_bonus),
                  Append(reasons, "Accumulation pattern"))
        ELSE Step(risk_score, reasons)

Behavioral_analyze_value_flow(p, risk_score, reasons) ==
    LET value_in == p.value_analysis.total_value_in
        value_out == p.value_analysis.total_value_out
        th == BEHAVIORAL_THRESHOLDS
    IN  IF value_out * 10 > value_in * th.heavy_outflow_ratio
        THEN Step(risk_score + Pt(th.heavy_outflow_penalty),
                  Append(reasons, "Heavy fund outflow pattern"))
        ELSE IF value_out * 10 > value_in * th.moderate_outflow_ratio
        THEN Step(risk_score + Pt(th.moderate_outflow_penalty),
                  Append(reasons, "Moderate outflow pattern"))
        ELSE IF value_in * 10 > value_out * th.accumulation_ratio
        THEN Step(risk_score - Pt(th.accumulation_bonus),
                  Append(reasons, "Accumulation pattern"))
        ELSE Step(risk_score, reasons)

Behavioral_analyze_transaction_sizes(p, risk_score, reasons) ==
    LET largest_tx == p.value_analysis.largest_transaction
        th == BEHAVIORAL_THRESHOLDS
    IN  IF largest_tx > th.very_large_transaction
        THEN Step(risk_score + Pt(th.very_large_tx_penalty),
                  Append(reasons, "Very large transaction"))
        ELSE IF largest_tx > th.large_transaction
        THEN Step(risk_score + Pt(th.large_tx_penalty),
                  Append(reasons, "Large transaction"))
        ELSE Step(risk_score, reasons)

Behavioral_analyze_interaction_diversity(p, risk_score, reasons) ==
    LET interaction_diversity == p.address_interactions.interaction_diversity
        total_txs == p.total_transactions
        th == BEHAVIORAL_THRESHOLDS
    IN  IF total_txs > 0
        THEN IF RatioLT(interaction_diversity, total_txs,
                        th.very_concentrated_interactions)
             THEN Step(risk_score + Pt(th.very_concentrated_penalty),
                       Append(reasons, "Very concentrated interactions"))
             ELSE IF RatioLT(interaction_diversity, total_txs,
                             th.concentrated_interactions)
             THEN Step(risk_score + Pt(th.concentrated_penalty),
                       Append(reasons, "Somewhat concentrated interactions"))
             ELSE IF RatioGT(interaction_diversity, total_txs, th.diverse_interactions)
             THEN Step(risk_score - Pt(th.diverse_bonus),
                       Append(reasons, "Diverse interaction pattern"))
             ELSE Step(risk_score, reasons)
        ELSE Step(risk_score, reasons)

\* timestamps in seconds, 0 for None; wallet_age_days < d is age < d * 86400
Behavioral_analyze_wallet_lifecycle(p, risk_score, reasons) ==
    LET first_tx == p.time_analysis.first_transaction
        last_tx == p.time_analysis.last_transaction
        th == BEHAVIORAL_THRESHOLDS
        age == last_tx - first_tx
        day == 24 * 60 * 60
    IN  IF first_tx # 0 /\ last_tx # 0
        THEN IF age < th.very_new_wallet_days * day
             THEN Step(risk_score + Pt(th.very_new_wallet_penalty),
                       Append(reasons, "Very new wallet (<30 days)"))
             ELSE IF age < th.new_wallet_days * day
             THEN Step(risk_score + Pt(th.new_wallet_penalty),
                       Append(reasons, "New wallet (<90 days)"))
             ELSE IF age > th.old_wallet_days * day
             THEN Step(risk_score - Pt(th.old_wallet_bonus),
                       Append(reasons, "Established wallet (>2 years)"))
             ELSE Step(risk_score, reasons)
        ELSE Step(risk_score, reasons)

\* the return statement of calculate_risk: the score is clamped
BehavioralReturn(risk_score, reasons) ==
    Returned(AllKeys, Clamp(risk_score), reasons)

\* the five passes over the running score, which starts at 50
BehavioralPasses(p) ==
    LET s1 == Behavioral_analyze_gas_patterns(p, Pt(50), <<>>)
        s2 == Behavioral_analyze_value_flow(p, s1.risk_score, s1.reasons)
        s3 == Behavioral_analyze_transaction_sizes(p, s2.risk_score, s2.reasons)
        s4 == Behavioral_analyze_interaction_diversity(p, s3.risk_score, s3.reasons)
    IN  Behavioral_analyze_wallet_lifecycle(p, s4.risk_score, s4.reasons)

BehavioralPatternAnalyzer_calculate_risk(p) ==
    IF p.error
    THEN Returned(AllKeys, Pt(60), <<"Unable to analyze behavior">>)
    ELSE LET s == BehavioralPasses(p)
         IN  BehavioralReturn(s.risk_score, s.reasons)

----------------------------------------------------------------------------
(* utils/risk_levels.py *)

\* a classification whose boundaries belong to the lower level
RiskLevelExclusive(risk_score) ==
    IF risk_score > Pt(80) THEN <<"VERY_HIGH", RISK_LEVEL_DESCRIPTIONS.VERY_HIGH>>
    ELSE IF risk_score > Pt(60) THEN <<"HIGH", RISK_LEVEL_DESCRIPTIONS.HIGH>>
    ELSE IF risk_score > Pt(40) THEN <<"MEDIUM", RISK_LEVEL_DESCRIPTIONS.MEDIUM>>
    ELSE IF risk_score > Pt(20) THEN <<"LOW", RISK_LEVEL_DESCRIPTIONS.LOW>>
    ELSE <<"VERY_LOW", RISK_LEVEL_DESCRIPTIONS.VERY_LOW>>

\* the tuple (risk_level, description)
get_risk_level_description(risk_score) ==
    IF risk_score >= Pt(80) THEN <<"VERY_HIGH", RISK_LEVEL_DESCRIPTIONS.VERY_HIGH>>
    ELSE IF risk_score >= Pt(60) THEN <<"HIGH", RISK_LEVEL_DESCRIPTIONS.HIGH>>
    ELSE IF risk_score >= Pt(40) THEN <<"MEDIUM", RISK_LEVEL_DESCRIPTIONS.MEDIUM>>
    ELSE IF risk_score >= Pt(20) THEN <<"LOW", RISK_LEVEL_DESCRIPTIONS.LOW>>
    ELSE <<"VERY_LOW", RISK_LEVEL_DESCRIPTIONS.VERY_LOW>>

\* the bucket of one component of categorize_risk_components
\* buckets cut at 60 and 40, the HIGH and MEDIUM thresholds of the five levels
RiskBucketAtLevels(risk) ==
    IF risk >= Pt(60) THEN "high" ELSE IF risk >= Pt(40) THEN "medium" ELSE "low"

RiskBucket(risk) ==
    IF risk >= Pt(70) THEN "high" ELSE IF risk >= Pt(40) THEN "medium" ELSE "low"

RECURSIVE BucketMembers(_, _)
\* the names of the items (name, risk) that fall in the bucket, in the items' order
BucketMembers(items, bucket) ==
    IF items = <<>> THEN <<>>
    ELSE (IF RiskBucket(Head(items)[2]) = bucket THEN <<Head(items)[1]>> ELSE <<>>)
         \o BucketMembers(Tail(items), bucket)

\* component_risks: the items of the dictionary, in insertion order
categorize_risk_components(component_risks) ==
    [high |-> BucketMembers(component_risks, "high"),
     medium |-> BucketMembers(component_risks, "medium"),
     low |-> BucketMembers(component_risks, "low")]

----------------------------------------------------------------------------
(* utils/recommendations.py *)

\* keyword in reason.lower(), tabulated over the reason texts of the four analyzers
ReasonMentions(reason, keyword) ==
    CASE keyword = "gas" ->
            reason \in {"Efficient gas usage", "High gas prices", "High gas usage",
                        "Very high gas usage"}
      [] keyword = "new wallet" ->
            reason \in {"New wallet (<90 days)", "Very new wallet (<30 days)"}
      [] keyword = "large" ->
            reason \in {"Large ETH holdings", "Large transaction",
                        "Very large ETH holdings", "Very large transaction"}
      [] keyword = "transaction" ->
            reason \in {"High value transaction ratio",
                        "Inactive wallet - no transactions", "Large transaction",
                        "Moderate high-value transactions",
                        "No transaction data available", "Very large transaction"}
      [] keyword = "stablecoin" -> reason \in {"Stablecoin exposure"}
      [] keyword = "diversification" ->
            reason \in {"Good diversification: categories",
                        "Good diversification: tokens", "High diversification: tokens",
                        "Low diversification: categories", "Low diversification: tokens"}
      [] keyword = "high-value" -> reason \in {"Moderate high-value transactions"}
      [] keyword = "inactive" -> reason \in {"Inactive wallet - no transactions"}
      [] keyword = "activity" ->
            reason \in {"High activity", "No recent activity (30 days)",
                        "Normal activity", "Very high activity", "Very low activity"}
      [] OTHER -> FALSE

\* any(keyword in reason.lower() for reason in reasons)
AnyMentions(reasons, keyword) ==
    \E i \in 1..Len(reasons) : ReasonMentions(reasons[i], keyword)

\* the appends of one if statement
When(cond, advisories) == IF cond THEN advisories ELSE <<>>

\* a return of the whole list
NoCut(recommendations) == recommendations

\* recommendations[:10]
FirstTen(recommendations) ==
    SubSeq(recommendations, 1, Min2(10, Len(recommendations)))

\* the if / elif / elif on the overall score
OverallBandAdvisory(overall_risk) ==
    IF overall_risk > Pt(80)
    THEN <<"CRITICAL: Extreme caution advised - multiple high-risk factors detected">>
    ELSE IF overall_risk > Pt(60)
    THEN <<"HIGH RISK: Significant caution required before any interactions">>
    ELSE IF overall_risk < Pt(25)
    THEN <<"LOW RISK: Generally safe wallet with conservative behavior">>
    ELSE <<>>

\* the recommendations list before it is cut
AllAdvisories(overall_risk, component_risks, reasons) ==
    OverallBandAdvisory(overall_risk)
    \o When(component_risks.transaction > Pt(70),
            <<"Transaction Patterns: Review transaction success rates and activity patterns">>)
    \o When(component_risks.protocol > Pt(70),
            <<"Protocol Risk: Wallet interacts with high-risk DeFi protocols",
              "Suggestion: Research protocol security audits and TVL stability">>)
    \o When(component_risks.concentration > Pt(70),
            <<"Asset Concentration: Consider portfolio diversification",
              "Tip: Spread holdings across multiple assets and protocols">>)
    \o When(component_risks.behavioral > Pt(70),
            <<"Behavioral Risk: Unusual transaction patterns detected",
              "Recommendation: Verify wallet ownership and transaction authenticity">>)
    \o When(AnyMentions(reasons, "gas"),
            <<"Gas Optimization: Consider using lower gas prices during off-peak hours">>)
    \o When(AnyMentions(reasons, "new wallet"),
            <<"New Wallet: Monitor activity patterns as wallet establishes history">>)
    \o When(\E i \in 1..Len(reasons) :
                ReasonMentions(reasons[i], "large")
                /\ ReasonMentions(reasons[i], "transaction"),
            <<"Large Transactions: Verify transaction authenticity for high-value transfers">>)
    \o When(AnyMentions(reasons, "stablecoin"),
            <<"Stablecoin Holdings: Good risk mitigation through stable assets">>)
    \o When(AnyMentions(reasons, "diversification"),
            <<"Portfolio Management: Continue maintaining diversified holdings">>)
    \o When(AnyMentions(reasons, "high-value"),
            <<"High-Value Activity: Implement additional security measures for large transactions">>)
    \o When(AnyMentions(reasons, "inactive") \/ AnyMentions(reasons, "activity"),
            <<"Activity Monitoring: Regular activity helps establish trust patterns">>)

generate_recommendations(overall_risk, component_risks, reasons) ==
    FirstTen(AllAdvisories(overall_risk, component_risks, reasons))

----------------------------------------------------------------------------
(* llm/gemini_client.py *)

\* A JSON value where a number is expected: a missing key, null, a number
\* (a score), or a string (v = 1) that may be empty (v = 0)
Absent == [k |-> "absent", v |-> 0]
Null == [k |-> "null", v |-> 0]
Num(x) == [k |-> "num", v |-> x]
Str == [k |-> "str", v |-> 1]
EmptyStr == [k |-> "str", v |-> 0]

\* the value of "component_scores": a missing key, null, or an object
Components(k, tp, pi, ac, bp) ==
    [k |-> k, transaction_patterns |-> tp, protocol_interactions |-> pi,
     asset_concentration |-> ac, behavioral_patterns |-> bp]

\* the dictionary {}
EmptyComponents == Components("object", Absent, Absent, Absent, Absent)

\* a returned llm result, or an exception
LLMResult(llm_risk_score, component_scores) ==
    [raised |-> FALSE, llm_risk_score |-> llm_risk_score,
     component_scores |-> component_scores]

LLMRaised == [raised |-> TRUE, llm_risk_score |-> Null, component_scores |-> EmptyComponents]

\* the three returns {"llm_risk_score": None, ..., "component_scores": {}}
LLMUnavailable == LLMResult(Null, EmptyComponents)

\* response.kind: what json.loads makes of the text: "invalid" (JSONDecodeError),
\* "nonobject" (a list, a number, a string: the dictionary operations raise) or
\* "object"
parse_gemini_response(response) ==
    IF response.kind = "invalid"
    THEN LLMResult(Num(Pt(50)), EmptyComponents)
    ELSE IF response.kind = "nonobject"
    THEN LLMRaised
    ELSE LET extracted_score ==
                 IF response.overall_risk_score.k = "absent"
                 THEN Num(Pt(50))
                 ELSE response.overall_risk_score
             component_scores ==
                 IF response.component_scores.k = "absent"
                 THEN EmptyComponents
                 ELSE response.component_scores
         IN  LLMResult(extracted_score, component_scores)

\* g.api_key: is_available(); g.prepare_raises: building the prompt, outside the
\* try, raises; g.response.kind = "none": _call_gemini_api returned None or ""
analyze_wallet_risk(g) ==
    IF ~g.api_key THEN LLMUnavailable
    ELSE IF g.prepare_raises THEN LLMRaised
    ELSE IF g.response.kind = "none" THEN LLMUnavailable
    ELSE LET parsed == parse_gemini_response(g.response)
         IN  IF parsed.raised THEN LLMUnavailable ELSE parsed

----------------------------------------------------------------------------
(* core.py *)

FourScores(tp, pi, ac, bp) ==
    [transaction_patterns |-> tp, protocol_interactions |-> pi,
     asset_concentration |-> ac, behavioral_patterns |-> bp]

\* the plain mean of the four scores
RuleBasedRiskUnweighted(transaction_risk, protocol_risk, concentration_risk, behavioral_risk) ==
    (transaction_risk + protocol_risk + concentration_risk + behavioral_risk) \div 4

\* rule-based weighted overall score
RuleBasedRisk(transaction_risk, protocol_risk, concentration_risk, behavioral_risk) ==
    (transaction_risk * RISK_WEIGHTS.transaction_patterns
     + protocol_risk * RISK_WEIGHTS.protocol_interactions
     + concentration_risk * RISK_WEIGHTS.asset_concentration
     + behavioral_risk * (RISK_WEIGHTS.activity_frequency + RISK_WEIGHTS.failure_rate))
    \div 100

\* STEP 2: the call of the collaborator inside try / except
LLMStep(g) ==
    LET llm_result == analyze_wallet_risk(g)
    IN  IF llm_result.raised THEN LLMUnavailable ELSE llm_result

\* the two overall scores with equal weights
HybridRiskEqualWeights(rule_based_risk, llm_risk_score) ==
    (5 * rule_based_risk + 5 * llm_risk_score) \div 10

\* rule_based_weight * rule_based_risk + llm_weight * llm_risk_score
HybridRisk(rule_based_risk, llm_risk_score) ==
    (LLM_CONFIG.rule_based_weight * rule_based_risk
     + LLM_CONFIG.llm_weight * llm_risk_score) \div 10

\* llm_component_scores.get(key, rule_score), for a value that is there and a number
\* a .get that falls back on the neutral 50 for a component that is not there
ComponentGetNeutral(llm_value, rule_score) ==
    IF llm_value.k = "absent" THEN Pt(50) ELSE llm_value.v

ComponentGet(llm_value, rule_score) ==
    IF llm_value.k = "absent" THEN rule_score ELSE llm_value.v

\* rule_tenths / 10 * rule_score + (1 - rule_tenths / 10) * llm score
Blend(rule_tenths, rule_score, llm_value) ==
    (rule_tenths * rule_score + (10 - rule_tenths) * ComponentGet(llm_value, rule_score))
    \div 10

HybridComponents(rule, llm_component_scores) ==
    FourScores(
        Blend(7, rule.transaction_patterns, llm_component_scores.transaction_patterns),
        Blend(5, rule.protocol_interactions, llm_component_scores.protocol_interactions),
        Blend(6, rule.asset_concentration, llm_component_scores.asset_concentration),
        Blend(7, rule.behavioral_patterns, llm_component_scores.behavioral_patterns))

\* the statements of the try block raise: the score is formatted with :.1f and
\* multiplied, the component scores are read with .get and multiplied
HybridRaises(llm_risk_score, llm_component_scores) ==
    \/ llm_risk_score.k # "num"
    \/ llm_component_scores.k # "object"
    \/ \E v \in {llm_component_scores.transaction_patterns,
                  llm_component_scores.protocol_interactions,
                  llm_component_scores.asset_concentration,
                  llm_component_scores.behavioral_patterns} : v.k \in {"null", "str"}

\* a STEP 3 that blends a default of 50 for a score that is not there
HybridStepDefaultsLLM(rule_based_risk, rule, llm_risk_score, llm_component_scores) ==
    IF llm_risk_score.k = "num" /\ ~HybridRaises(llm_risk_score, llm_component_scores)
    THEN [branch |-> "hybrid",
          overall_risk |-> HybridRisk(rule_based_risk, llm_risk_score.v),
          primary_components |-> HybridComponents(rule, llm_component_scores)]
    ELSE [branch |-> IF llm_risk_score.k = "null" THEN "rule" ELSE "except",
          overall_risk |-> HybridRisk(rule_based_risk, Pt(50)),
          primary_components |-> rule]

\* STEP 3: overall_risk and primary_components
HybridStep(rule_based_risk, rule, llm_risk_score, llm_component_scores) ==
    IF llm_risk_score.k # "null"
    THEN IF HybridRaises(llm_risk_score, llm_component_scores)
         THEN [branch |-> "except", overall_risk |-> rule_based_risk,
               primary_components |-> rule]
         ELSE [branch |-> "hybrid",
               overall_risk |-> HybridRisk(rule_based_risk, llm_risk_score.v),
               primary_components |-> HybridComponents(rule, llm_component_scores)]
    ELSE [branch |-> "rule", overall_risk |-> rule_based_risk,
          primary_components |-> rule]

\* bool(llm_risk_score)
Truthy(llm_risk_score) ==
    llm_risk_score.k \in {"num", "str"} /\ llm_risk_score.v # 0

\* round(llm_risk_score, 2) and the comparisons of get_risk_level_description
\* raise for a string
ReturnRaises(llm_risk_score) ==
    Truthy(llm_risk_score) /\ llm_risk_score.k = "str"

RoundFour(scores) ==
    FourScores(Round2(scores.transaction_patterns), Round2(scores.protocol_interactions),
               Round2(scores.asset_concentration), Round2(scores.behavioral_patterns))

\* the component_risks argument of generate_recommendations
RecommendationScores(transaction_risk, protocol_risk, concentration_risk, behavioral_risk) ==
    [transaction |-> transaction_risk, protocol |-> protocol_risk,
     concentration |-> concentration_risk, behavioral |-> behavioral_risk]

\* an all_reasons list that is an attribute of the engine and is never emptied
AllReasonsKept(transaction_result, protocol_result, concentration_result, behavioral_result) ==
    (IF assessment.status = "returned" THEN assessment.risk_factors ELSE <<>>)
    \o transaction_result.reasons \o protocol_result.reasons
    \o concentration_result.reasons \o behavioral_result.reasons

\* the four lists joined with the protocol reasons first
AllReasonsProtocolFirst(transaction_result, protocol_result, concentration_result, behavioral_result) ==
    protocol_result.reasons \o transaction_result.reasons
    \o concentration_result.reasons \o behavioral_result.reasons

\* all_reasons: the four extends
AllReasons(transaction_result, protocol_result, concentration_result, behavioral_result) ==
    transaction_result.reasons \o protocol_result.reasons
    \o concentration_result.reasons \o behavioral_result.reasons

Methodology(llm_risk_score) ==
    IF Truthy(llm_risk_score)
    THEN "60% rule-based + 40% Gemini"
    ELSE "100% rule-based (Gemini unavailable)"

\* "llm_based": {...} of the returned dictionary
LLMBased(llm_risk_score, llm_component_scores) ==
    [overall_score |->
        IF Truthy(llm_risk_score) THEN Num(Round2(llm_risk_score.v)) ELSE Null,
     risk_level |->
        IF Truthy(llm_risk_score)
        THEN get_risk_level_description(llm_risk_score.v)[1]
        ELSE "N/A",
     components |-> llm_component_scores]

\* the local variables of a call at its end, from the results of the four
\* analyzers and of STEP 2
LocalsOf(transaction_result, protocol_result, concentration_result, behavioral_result, llm_result) ==
    LET rule == FourScores(transaction_result.risk_score, protocol_result.risk_score,
                           concentration_result.risk_score, behavioral_result.risk_score)
        rule_based_risk ==
            RuleBasedRisk(transaction_result.risk_score, protocol_result.risk_score,
                          concentration_result.risk_score, behavioral_result.risk_score)
        hybrid == HybridStep(rule_based_risk, rule, llm_result.llm_risk_score,
                             llm_result.component_scores)
    IN  [analyzer_raised |->
            transaction_result.raised \/ protocol_result.raised
            \/ concentration_result.raised \/ behavioral_result.raised,
         rule |-> rule,
         rule_based_risk |-> rule_based_risk,
         llm_risk_score |-> llm_result.llm_risk_score,
         llm_component_scores |-> llm_result.component_scores,
         branch |-> hybrid.branch,
         overall_risk |-> hybrid.overall_risk,
         primary_components |-> hybrid.primary_components,
         all_reasons |-> AllReasons(transaction_result, protocol_result,
                                    concentration_result, behavioral_result)]

\* STEP 1 and STEP 2: the four analyzers and the collaborator are called
Locals(p, pa, b, g) ==
    LocalsOf(TransactionPatternAnalyzer_calculate_risk(p),
             ProtocolRiskAnalyzer_calculate_risk(pa),
             AssetConcentrationAnalyzer_calculate_risk(b),
             BehavioralPatternAnalyzer_calculate_risk(p),
             LLMStep(g))

CallRaised == [status |-> "raised"]

\* a "rule_based" sub-report filled with the primary (hybrid) scores
RuleBasedReportOfPrimary(l) ==
    [overall_score |-> Round2(l.overall_risk),
     risk_level |-> get_risk_level_description(l.overall_risk)[1],
     components |-> RoundFour(l.primary_components)]

\* the "rule_based" sub-report of the returned dictionary
RuleBasedReport(l) ==
    [overall_score |-> Round2(l.rule_based_risk),
     risk_level |-> get_risk_level_description(l.rule_based_risk)[1],
     components |-> RoundFour(l.rule)]

\* the returned dictionary, built from the local variables l
ReturnValue(l) ==
    LET level == get_risk_level_description(l.overall_risk)
    IN  [status |-> "returned",
         overall_risk_score |-> Round2(l.overall_risk),
         risk_level |-> level[1],
         risk_description |-> level[2],
         component_scores |-> RoundFour(l.primary_components),
         scoring_methods |->
            [rule_based |-> RuleBasedReport(l),
             llm_based |-> LLMBased(l.llm_risk_score, l.llm_component_scores),
             hybrid |->
                [overall_score |-> Round2(l.overall_risk),
                 risk_level |-> level[1],
                 components |-> RoundFour(l.primary_components),
                 methodology |-> Methodology(l.llm_risk_score)]],
         component_weights |-> RISK_WEIGHTS,
         risk_factors |-> l.all_reasons,
         recommendations |->
            generate_recommendations(
                l.overall_risk,
                RecommendationScores(l.rule.transaction_patterns,
                                     l.rule.protocol_interactions,
                                     l.rule.asset_concentration,
                                     l.rule.behavioral_patterns),
                l.all_reasons),
         risk_distribution |->
            categorize_risk_components(
                << <<"transaction", l.primary_components.transaction_patterns>>,
                   <<"protocol", l.primary_components.protocol_interactions>>,
                   <<"concentration", l.primary_components.asset_concentration>>,
                   <<"behavioral", l.primary_components.behavioral_patterns>> >>)]

\* a call that ends with the local variables l: an exception of an analyzer or of
\* the return statement leaves the call, otherwise the dictionary is returned
Outcome(l) ==
    IF l.analyzer_raised \/ ReturnRaises(l.llm_risk_score)
    THEN CallRaised
    ELSE ReturnValue(l)

\* RiskScoringEngine.calculate_overall_risk_score: what the call returns; the
\* "detailed_analysis" entry, a copy of the five intermediate results, is left out
calculate_overall_risk_score(p, pa, b, g) == Outcome(Locals(p, pa, b, g))

----------------------------------------------------------------------------
(* The arguments the operations are applied to *)

\* A TransactionPatterns dictionary (Etherscan_client.analyze_transaction_patterns).
\* activity_frequency in hundredths of tx/day, avg_gas_price in Gwei, values in
\* ETH, timestamps in seconds with 0 for None.  The dictionary with the error
\* marker holds no other key: its other fields are never read before the early
\* returns.
MkPatterns(error, total, successful, high_value, contract, recent, unique, frequency, gas, value_in, value_out, largest, diversity, first, last) ==
    [error |-> error,
     total_transactions |-> total,
     successful_transactions |-> successful,
     high_value_transactions |-> high_value,
     contract_interactions |-> contract,
     recent_activity |-> recent,
     unique_addresses |-> unique,
     gas_analysis |-> [avg_gas_price |-> gas],
     time_analysis |-> [activity_frequency |-> frequency,
                        first_transaction |-> first, last_transaction |-> last],
     value_analysis |-> [total_value_in |-> value_in, total_value_out |-> value_out,
                         largest_transaction |-> largest],
     address_interactions |-> [interaction_diversity |-> diversity]]

\* a timestamp, and the one d days later
T0 == 24 * 60 * 60 * 18000
DaysAfter(d) == T0 + d * 24 * 60 * 60

\* {"error": ...}
ErrorPatterns == MkPatterns(TRUE, 0, 0, 0, 0, 0, 0, 0, 0, 0, 0, 0, 0, 0, 0)
\* a wallet with no transaction
ZeroPatterns == MkPatterns(FALSE, 0, 0, 0, 0, 0, 0, 0, 0, 0, 0, 0, 0, 0, 0)
\* no rule of either analyzer fires: both scores are the base 50
MidPatterns ==
    MkPatterns(FALSE, 20, 18, 0, 10, 5, 10, 50, 50, 10, 10, 5, 10, T0, DaysAfter(365))
\* only bonuses fire
HealthyPatterns ==
    MkPatterns(FALSE, 20, 20, 0, 1, 5, 10, 300, 30, 10, 4, 1, 15, T0, DaysAfter(800))
\* every penalty of both analyzers fires
RiskyPatterns ==
    MkPatterns(FALSE, 20, 12, 11, 19, 0, 1, 2500, 250, 10, 31, 101, 1, T0, DaysAfter(10))
\* every transaction penalty fires, of the behavioral ones only the gas price
HotPatterns ==
    MkPatterns(FALSE, 20, 12, 11, 19, 0, 1, 2500, 150, 10, 10, 5, 10, T0, DaysAfter(365))
\* transaction score exactly 70
BorderPatterns ==
    MkPatterns(FALSE, 20, 16, 0, 10, 5, 10, 50, 101, 10, 10, 11, 10, T0, DaysAfter(365))

\* the transaction rules, each count in twentieths of the total
TransactionPatterns ==
    { MkPatterns(FALSE, total, (s * total) \div 20, (h * total) \div 20,
                 (c * total) \div 20, recent, (u * total) \div 20, frequency, gas,
                 10, 10, 5, total \div 2, T0, DaysAfter(365)) :
        total \in {10, 20}, s \in {13, 14, 17, 19, 20}, h \in {6, 7, 11},
        c \in {1, 2, 15, 19}, recent \in {0, 50, 51}, u \in {1, 2},
        frequency \in {5, 10, 100, 600, 1001, 2001}, gas \in {100, 101} }

\* the behavioral rules
BehavioralPatterns ==
    { MkPatterns(FALSE, total, total, 0, total \div 2, 5, total \div 2, 50, gas,
                 flow[1], flow[2], largest, diversity, first, DaysAfter(age)) :
        total \in {20}, gas \in {19, 20, 100, 101, 200, 201},
        flow \in {<<0, 0>>, <<0, 1>>, <<10, 4>>, <<10, 5>>, <<10, 10>>, <<10, 15>>,
                  <<10, 16>>, <<10, 30>>, <<10, 31>>},
        largest \in {10, 11, 100, 101}, diversity \in {1, 2, 5, 6, 14, 15},
        first \in {0, T0}, age \in {29, 30, 89, 90, 730, 731} }

\* the early returns, whatever the other fields hold
FallbackPatterns ==
    { MkPatterns(error, 0, 0, 0, 0, 0, 0, 0, gas, 0, out, 0, 0, 0, 0) :
        error \in BOOLEAN, gas \in {0, 250}, out \in {0, 5} }
    \cup { MkPatterns(TRUE, 20, 12, 11, 19, 0, 1, 2500, gas, 10, 31, 101, 1,
                      T0, DaysAfter(10)) : gas \in {0, 250} }

\* A ProtocolAnalysis dictionary (defillama_client.analyze_protocol_interactions).
\* protocols: the risk scores of the listed protocols, in points;
\* raw_average_risk: a score; total_tvl_interacted in millions of dollars
MkProtocolAnalysis(empty, has_protocols, protocols, raw_average_risk, high_risk, total, diversification, tvl, concentration_penalty, very_high) ==
    [empty |-> empty, has_protocols |-> has_protocols, protocols |-> protocols,
     raw_average_risk |-> raw_average_risk, high_risk_protocols |-> high_risk,
     total_protocols |-> total, diversification_score |-> diversification,
     total_tvl_interacted |-> tvl, concentration_penalty |-> concentration_penalty,
     risk_distribution |-> [very_high |-> very_high]]

\* the answer to the sentinel "no DeFi interactions"
NoProtocols == MkProtocolAnalysis(FALSE, TRUE, <<>>, Pt(0), 0, 0, 0, 0, 0, 0)
\* three protocols of risk 10 in three categories, TVL $20B
SafeProtocols == MkProtocolAnalysis(FALSE, TRUE, <<10, 10, 10>>, Pt(10), 0, 3, 3, 20000, 0, 0)
\* two protocols, score 50
MidProtocols == MkProtocolAnalysis(FALSE, TRUE, <<40, 60>>, Pt(50), 0, 2, 2, 5000, 10, 0)
\* one unknown protocol
RiskyProtocols == MkProtocolAnalysis(FALSE, TRUE, <<85>>, Pt(85), 1, 1, 1, 0, 15, 1)
\* a high-risk count beside a total of 0
BrokenProtocols == MkProtocolAnalysis(FALSE, TRUE, <<85>>, Pt(85), 1, 0, 1, 0, 15, 1)

ProtocolAnalyses ==
    { MkProtocolAnalysis(FALSE, TRUE, protocols, Pt(average), high_risk, total,
                         diversification, tvl, concentration_penalty, very_high) :
        protocols \in {<<85>>, <<10, 10, 10>>}, average \in {0, 10, 50, 85, 100},
        high_risk \in {0, 1, 3}, total \in {0, 1, 3, 4}, diversification \in {0, 1, 2, 3},
        tvl \in {0, 99, 100, 1000, 1001, 10000, 10001, 50000, 50001},
        concentration_penalty \in {0, 15}, very_high \in {0, 1, 3} }

\* None or {}, a dictionary without the key, and an empty list beside any aggregates
EmptyProtocolAnalyses ==
    { MkProtocolAnalysis(empty, has_protocols, <<>>, Pt(average), high_risk, 0,
                         diversification, tvl, 0, very_high) :
        empty \in BOOLEAN, has_protocols \in BOOLEAN, average \in {0, 85},
        high_risk \in {0, 1}, diversification \in {0, 1}, tvl \in {0, 50001},
        very_high \in {0, 3} }

\* token symbols as character sequences
USDC == <<"U", "S", "D", "C">>
SDAI == <<"s", "D", "A", "I">>
WETH == <<"W", "E", "T", "H">>
UNI == <<"U", "N", "I">>

Token(symbol) == [token_symbol |-> symbol]

\* a list of n tokens of which the first k hold a stablecoin name
TokenList(n, k) ==
    [i \in 1..n |->
        IF i <= k THEN Token(IF i % 2 = 1 THEN USDC ELSE SDAI)
        ELSE Token(IF i % 2 = 1 THEN WETH ELSE UNI)]

\* the longest token list
MaxTokens == 11

\* A BalanceData dictionary; eth_balance in thousandths of an ETH
MkBalances(eth_balance, tokens) == [eth_balance |-> eth_balance, tokens |-> tokens]

Balances ==
    { MkBalances(eth, TokenList(n, k)) :
        eth \in {0, 5, 10, 5000, 10000, 10001, 100000, 100001, 1000000, 1000001},
        n \in 0..MaxTokens, k \in 0..MaxTokens }

EmptyBalances == MkBalances(0, <<>>)
EthOnlyBalances == MkBalances(5000, <<>>)
StableBalances == MkBalances(5000, TokenList(2, 2))
WhaleBalances == MkBalances(1000001, TokenList(1, 0))
DiverseBalances == MkBalances(5000, TokenList(10, 3))

\* What the LLM collaborator does in a call
MkGemini(api_key, prepare_raises, kind, overall_risk_score, component_scores) ==
    [api_key |-> api_key, prepare_raises |-> prepare_raises,
     response |-> [kind |-> kind, overall_risk_score |-> overall_risk_score,
                   component_scores |-> component_scores]]

NoKey == MkGemini(FALSE, FALSE, "none", Absent, EmptyComponents)
PrepareRaises == MkGemini(TRUE, TRUE, "none", Absent, EmptyComponents)
NoText(kind) == MkGemini(TRUE, FALSE, kind, Absent, EmptyComponents)
Answer(overall_risk_score, component_scores) ==
    MkGemini(TRUE, FALSE, "object", overall_risk_score, component_scores)

\* the scores an answer may carry: the model is asked for 0-100 and is not held to it
AnswerScores ==
    {Absent, Null, Str, EmptyStr}
    \cup { Num(Pt(x)) : x \in {0 - 20, 0, 20, 25, 50, 75, 80, 100, 150} }
    \cup { Num(Cp(6674)) }

AnswerComponents ==
    { Components("object", tp, pi, ac, bp) :
        tp \in {Absent, Num(Pt(100))}, pi \in {Absent, Num(Pt(100))},
        ac \in {Absent, Num(Pt(100))}, bp \in {Absent, Num(Pt(100))} }
    \cup { Components("object", Num(Pt(10)), Num(Pt(35)), Num(Pt(60)), Num(Pt(85))),
           Components("object", Num(Pt(10)), Null, Num(Pt(60)), Num(Pt(85))),
           Components("object", Num(Pt(10)), Num(Pt(35)), Str, Num(Pt(85))),
           Components("absent", Absent, Absent, Absent, Absent),
           Components("null", Absent, Absent, Absent, Absent) }

GeminiBehaviours ==
    {NoKey, PrepareRaises, NoText("none"), NoText("invalid"), NoText("nonobject")}
    \cup { Answer(score, components) :
             score \in AnswerScores, components \in AnswerComponents }

----------------------------------------------------------------------------
(* State machine *)

NoComponentResult == [analyzer |-> "none", result |-> Returned({}, 0, <<>>)]
NoRecArgs == [overall_risk |-> 0, component_risks |-> RecommendationScores(0, 0, 0, 0),
              reasons |-> <<>>]
NoRecResult == [made |-> FALSE, list |-> <<>>]
NoAssessment == [status |-> "none"]
NoLocals == [branch |-> "none"]
NoCall == [made |-> FALSE]

\* no request to the LLM service has been made
NoLLMCall == [phase |-> "idle", elapsed |-> 0]

Idle ==
    /\ component_result = NoComponentResult
    /\ rec_args = NoRecArgs
    /\ rec_result = NoRecResult
    /\ assessment = NoAssessment
    /\ locals = NoLocals
    /\ first_call = NoCall
    /\ calls = 0
    /\ llm_call = NoLLMCall

\* the engine is constructed and a caller holds the arguments of a call
Init ==
    /\ patterns \in {ErrorPatterns, ZeroPatterns, MidPatterns, HealthyPatterns,
                      RiskyPatterns, HotPatterns, BorderPatterns}
    /\ protocol_analysis \in {NoProtocols, SafeProtocols, MidProtocols, RiskyProtocols,
                               BrokenProtocols}
    /\ balances \in {EmptyBalances, EthOnlyBalances, StableBalances, WhaleBalances,
                      DiverseBalances}
    /\ gemini \in GeminiBehaviours
    /\ Idle

\* engine.calculate_overall_risk_score(patterns, protocol_analysis, balances)
Call ==
    /\ calls = 0
    /\ assessment' = calculate_overall_risk_score(patterns, protocol_analysis,
                                                  balances, gemini)
    /\ locals' = Locals(patterns, protocol_analysis, balances, gemini)
    /\ calls' = 1
    /\ UNCHANGED <<patterns, protocol_analysis, balances, gemini, component_result,
                   rec_args, rec_result, first_call, llm_call>>

Next == Call

Spec == Init /\ [][Next]_vars

----------------------------------------------------------------------------
(* The four analyzers on their own *)

InitAnalyzers ==
    /\ \/ /\ patterns \in TransactionPatterns \cup BehavioralPatterns
                            \cup FallbackPatterns
          /\ protocol_analysis = NoProtocols
          /\ balances = EmptyBalances
       \/ /\ patterns = MidPatterns
          /\ protocol_analysis \in ProtocolAnalyses \cup EmptyProtocolAnalyses
                                     \cup {SafeProtocols}
          /\ balances = EmptyBalances
       \/ /\ patterns = MidPatterns
          /\ protocol_analysis = NoProtocols
          /\ balances \in Balances
    /\ gemini = NoKey
    /\ Idle

AnalyzerReturns(analyzer, result) ==
    /\ component_result' = [analyzer |-> analyzer, result |-> result]
    /\ UNCHANGED <<patterns, protocol_analysis, balances, gemini, rec_args,
                   rec_result, assessment, locals, first_call, calls, llm_call>>

\* transaction_analyzer.calculate_risk(patterns)
TransactionCalculateRisk ==
    AnalyzerReturns("transaction", TransactionPatternAnalyzer_calculate_risk(patterns))

\* protocol_analyzer.calculate_risk(protocol_analysis)
ProtocolCalculateRisk ==
    AnalyzerReturns("protocol", ProtocolRiskAnalyzer_calculate_risk(protocol_analysis))

\* asset_analyzer.calculate_risk(balances)
AssetCalculateRisk ==
    AnalyzerReturns("concentration", AssetConcentrationAnalyzer_calculate_risk(balances))

\* behavioral_analyzer.calculate_risk(patterns)
BehavioralCalculateRisk ==
    AnalyzerReturns("behavioral", BehavioralPatternAnalyzer_calculate_risk(patterns))

NextAnalyzers ==
    \/ TransactionCalculateRisk
    \/ ProtocolCalculateRisk
    \/ AssetCalculateRisk
    \/ BehavioralCalculateRisk

SpecAnalyzers == InitAnalyzers /\ [][NextAnalyzers]_vars

----------------------------------------------------------------------------
(* generate_recommendations on its own *)

\* reason texts: one for every keyword of the rule table, and two that hold
\* "large" and "transaction" apart
ReasonPool ==
    <<"High gas usage", "New wallet (<90 days)", "Large transaction",
      "Large ETH holdings", "High value transaction ratio", "Stablecoin exposure",
      "Good diversification: tokens", "Moderate high-value transactions",
      "Very low activity">>

RECURSIVE SubList(_, _, _)
\* the entries of list at the indices chosen, from index i on, in the list's order
SubList(list, chosen, i) ==
    IF i > Len(list) THEN <<>>
    ELSE (IF i \in chosen THEN <<list[i]>> ELSE <<>>) \o SubList(list, chosen, i + 1)

RecArgs ==
    { [overall_risk |-> Pt(overall),
       component_risks |-> RecommendationScores(Pt(t), Pt(p), Pt(c), Pt(b)),
       reasons |-> SubList(ReasonPool, chosen, 1)] :
        overall \in {24, 25, 60, 61, 80, 81},
        t \in {70, 71}, p \in {70, 71}, c \in {70, 71}, b \in {70, 71},
        chosen \in SUBSET (1..Len(ReasonPool)) }

InitRecommend ==
    /\ patterns = MidPatterns
    /\ protocol_analysis = NoProtocols
    /\ balances = EmptyBalances
    /\ gemini = NoKey
    /\ component_result = NoComponentResult
    /\ rec_args \in RecArgs
    /\ rec_result = NoRecResult
    /\ assessment = NoAssessment
    /\ locals = NoLocals
    /\ first_call = NoCall
    /\ calls = 0
    /\ llm_call = NoLLMCall

\* generate_recommendations(overall_risk, component_risks, reasons)
Recommend ==
    /\ rec_result' =
          [made |-> TRUE,
           list |-> generate_recommendations(rec_args.overall_risk,
                                             rec_args.component_risks,
                                             rec_args.reasons)]
    /\ UNCHANGED <<patterns, protocol_analysis, balances, gemini, component_result,
                   rec_args, assessment, locals, first_call, calls, llm_call>>

NextRecommend == Recommend

SpecRecommend == InitRecommend /\ [][NextRecommend]_vars

----------------------------------------------------------------------------
(* Several calls on one engine *)

\* the number of calls of a session
MaxCalls == 3

SessionPatterns == {MidPatterns, RiskyPatterns}
SessionProtocols == {NoProtocols, RiskyProtocols}
SessionBalances == {StableBalances}
SessionGemini ==
    {NoKey, Answer(Num(Pt(20)), EmptyComponents),
     Answer(Num(Pt(80)),
            Components("object", Num(Pt(10)), Num(Pt(35)), Num(Pt(60)), Num(Pt(85))))}

InitSession ==
    /\ patterns = MidPatterns
    /\ protocol_analysis = NoProtocols
    /\ balances = EmptyBalances
    /\ gemini = NoKey
    /\ Idle

\* first_call after a call with these arguments that returned result: the first call
\* is remembered, and so is whether a later call had other arguments
Remember(args, result) ==
    IF ~first_call.made
    THEN [made |-> TRUE, args |-> args, result |-> result, others |-> FALSE]
    ELSE [first_call EXCEPT !.others = first_call.others \/ args # first_call.args]

\* engine.calculate_overall_risk_score(p, pa, b), the collaborator doing g
SessionCall(p, pa, b, g) ==
    /\ calls < MaxCalls
    /\ patterns' = p
    /\ protocol_analysis' = pa
    /\ balances' = b
    /\ gemini' = g
    /\ assessment' = calculate_overall_risk_score(p, pa, b, g)
    /\ locals' = Locals(p, pa, b, g)
    /\ calls' = calls + 1
    /\ first_call' = Remember(<<p, pa, b, g>>, assessment')
    /\ UNCHANGED <<component_result, rec_args, rec_result, llm_call>>

NextSession ==
    \E p \in SessionPatterns, pa \in SessionProtocols, b \in SessionBalances,
       g \in SessionGemini : SessionCall(p, pa, b, g)

SpecSession == InitSession /\ [][NextSession]_vars

----------------------------------------------------------------------------
(* One call of the engine, step by step around its blocking request to the LLM
   service: the analyzers and the rule-based score, then the request, then the
   blend and the return. Time passes while the request is in flight. *)

\* seconds after which the model stops counting
MaxElapsed == 50

InitLLMCall ==
    /\ patterns \in {ZeroPatterns, MidPatterns, RiskyPatterns}
    /\ protocol_analysis \in {NoProtocols, SafeProtocols, BrokenProtocols}
    /\ balances \in {EmptyBalances, DiverseBalances}
    /\ gemini \in GeminiBehaviours
    /\ Idle

\* the local variables when the engine calls the collaborator: the four
\* analyzer results and the rule-based scores
PendingLocals(transaction_result, protocol_result, concentration_result, behavioral_result) ==
    [branch |-> "pending",
     analyzer_raised |->
        transaction_result.raised \/ protocol_result.raised
        \/ concentration_result.raised \/ behavioral_result.raised,
     transaction_result |-> transaction_result,
     protocol_result |-> protocol_result,
     concentration_result |-> concentration_result,
     behavioral_result |-> behavioral_result,
     rule |-> FourScores(transaction_result.risk_score, protocol_result.risk_score,
                         concentration_result.risk_score, behavioral_result.risk_score),
     rule_based_risk |->
        RuleBasedRisk(transaction_result.risk_score, protocol_result.risk_score,
                      concentration_result.risk_score, behavioral_result.risk_score)]

\* the call up to the request: STEP 1, then analyze_wallet_risk, which sends a
\* request only if it has a key and has prepared its prompt
BeginCall ==
    /\ calls = 0
    /\ llm_call.phase = "idle"
    /\ locals' = PendingLocals(TransactionPatternAnalyzer_calculate_risk(patterns),
                                ProtocolRiskAnalyzer_calculate_risk(protocol_analysis),
                                AssetConcentrationAnalyzer_calculate_risk(balances),
                                BehavioralPatternAnalyzer_calculate_risk(patterns))
    /\ IF locals'.analyzer_raised
       THEN /\ assessment' = CallRaised
            /\ calls' = 1
            /\ llm_call' = [phase |-> "done", elapsed |-> 0]
       ELSE /\ UNCHANGED <<assessment, calls>>
            /\ llm_call' = [phase |-> IF gemini.api_key /\ ~gemini.prepare_raises
                                       THEN "in_flight" ELSE "answered",
                            elapsed |-> 0]
    /\ UNCHANGED <<patterns, protocol_analysis, balances, gemini, component_result,
                   rec_args, rec_result, first_call>>

\* ten seconds pass while model.generate_content blocks; the call passes no
\* timeout to it and nothing else in the engine watches the clock
Tick ==
    /\ llm_call.phase = "in_flight"
    /\ llm_call.elapsed < MaxElapsed
    /\ llm_call' = [llm_call EXCEPT !.elapsed = @ + 10]
    /\ UNCHANGED <<patterns, protocol_analysis, balances, gemini, component_result,
                   rec_args, rec_result, assessment, locals, first_call, calls>>

\* model.generate_content returns or raises: the service has answered, or the
\* library has given up
GeminiResponds ==
    /\ llm_call.phase = "in_flight"
    /\ llm_call' = [llm_call EXCEPT !.phase = "answered"]
    /\ UNCHANGED <<patterns, protocol_analysis, balances, gemini, component_result,
                   rec_args, rec_result, assessment, locals, first_call, calls>>

\* the call from the collaborator's result on: STEP 3 to the return statement
EndCall ==
    /\ llm_call.phase = "answered"
    /\ locals' = LocalsOf(locals.transaction_result, locals.protocol_result,
                           locals.concentration_result, locals.behavioral_result,
                           LLMStep(gemini))
    /\ assessment' = Outcome(locals')
    /\ calls' = 1
    /\ llm_call' = [llm_call EXCEPT !.phase = "done"]
    /\ UNCHANGED <<patterns, protocol_analysis, balances, gemini, component_result,
                   rec_args, rec_result, first_call>>

NextLLMCall ==
    \/ BeginCall
    \/ Tick
    \/ GeminiResponds
    \/ EndCall

\* the interpreter runs the engine's own steps; nothing makes the service answer
SpecLLMCall ==
    InitLLMCall /\ [][NextLLMCall]_vars /\ WF_vars(BeginCall) /\ WF_vars(EndCall)

----------------------------------------------------------------------------
(* Properties of calculate_overall_risk_score (Spec) *)

\* the call has returned a RiskAssessment
HasReturned == assessment.status = "returned"

InRange(x) == Pt(0) <= x /\ x <= Pt(100)

InList(x, list) == \E i \in 1..Len(list) : list[i] = x

\* the collaborator's score of one component, a score that is missing or is no
\* number replaced by the rule-based one
ScoreOr(llm_value, rule_score) ==
    IF llm_value.k = "num" THEN llm_value.v ELSE rule_score

\* the four blends 70/30, 50/50, 60/40, 70/30 of the rule-based component scores
\* with the collaborator's, and 60/40 of the two overall scores
BlendedAsStated ==
    LET r == locals.rule
        c == locals.llm_component_scores
        h == locals.primary_components
    IN  /\ 10 * locals.overall_risk
              = 6 * locals.rule_based_risk + 4 * locals.llm_risk_score.v
        /\ 10 * h.transaction_patterns
              = 7 * r.transaction_patterns
                + 3 * ScoreOr(c.transaction_patterns, r.transaction_patterns)
        /\ 10 * h.protocol_interactions
              = 5 * r.protocol_interactions
                + 5 * ScoreOr(c.protocol_interactions, r.protocol_interactions)
        /\ 10 * h.asset_concentration
              = 6 * r.asset_concentration
                + 4 * ScoreOr(c.asset_concentration, r.asset_concentration)
        /\ 10 * h.behavioral_patterns
              = 7 * r.behavioral_patterns
                + 3 * ScoreOr(c.behavioral_patterns, r.behavioral_patterns)
        /\ assessment.overall_risk_score = Round2(locals.overall_risk)
        /\ assessment.scoring_methods.hybrid.overall_score = Round2(locals.overall_risk)
        /\ assessment.component_scores = RoundFour(h)
        /\ assessment.scoring_methods.hybrid.components = RoundFour(h)

\* every hybrid field of the assessment is the rule-based one
HybridIsRuleBased ==
    LET m == assessment.scoring_methods
    IN  /\ m.hybrid.overall_score = m.rule_based.overall_score
        /\ m.hybrid.risk_level = m.rule_based.risk_level
        /\ m.hybrid.components = m.rule_based.components
        /\ assessment.overall_risk_score = m.rule_based.overall_score
        /\ assessment.risk_level = m.rule_based.risk_level
        /\ assessment.component_scores = m.rule_based.components

\* C1: whatever the LLM collaborator does (unavailable, an exception, a malformed
\* response), the call does not raise: a call in which no analyzer raised returns
\* a RiskAssessment.
C1_LLMNeverAbortsScoring ==
    calls > 0 /\ ~locals.analyzer_raised => HasReturned

\* C2: when the LLM collaborator is unavailable (its score is null, or its call
\* raised and the engine set the score to null), the hybrid fields of the
\* assessment equal the rule-based fields, the llm-based overall score is null and
\* the methodology reads "100% rule-based".
C2_UnavailableMeansRuleBased ==
    HasReturned /\ locals.llm_risk_score.k = "null" =>
        /\ HybridIsRuleBased
        /\ assessment.scoring_methods.llm_based.overall_score = Null
        /\ assessment.scoring_methods.hybrid.methodology
               = "100% rule-based (Gemini unavailable)"

\* a call whose collaborator raised has returned, with scores that tell the
\* rule-based result from a blend with anything else
C2_Witness ==
    /\ HasReturned
    /\ gemini.api_key /\ gemini.prepare_raises
    /\ locals.llm_risk_score.k = "null"
    /\ locals.rule_based_risk # Pt(50)

\* C4: in every returned assessment the rule-based overall score, the llm-based
\* overall score when there is one, and the hybrid overall score lie in [0, 100].
C4_OverallScoresInRange ==
    HasReturned =>
        LET m == assessment.scoring_methods
        IN  /\ InRange(m.rule_based.overall_score)
            /\ m.llm_based.overall_score.k = "num" => InRange(m.llm_based.overall_score.v)
            /\ InRange(m.hybrid.overall_score)
            /\ InRange(assessment.overall_risk_score)

\* C5 as stated: whenever the LLM collaborator returns a score, the hybrid overall
\* score is 0.6 x rule-based + 0.4 x LLM and the hybrid components are the fixed
\* blends.
C5_BlendWheneverScored ==
    HasReturned /\ locals.llm_risk_score.k = "num" => BlendedAsStated

\* component_scores is a mapping and each value it holds is a number
WellFormedComponents ==
    LET c == locals.llm_component_scores
    IN  /\ c.k = "object"
        /\ \A v \in {c.transaction_patterns, c.protocol_interactions,
                     c.asset_concentration, c.behavioral_patterns} :
               v.k \in {"absent", "num"}

\* C5, amended: whenever the LLM collaborator returns a numeric score and
\* well-formed component scores, the hybrid overall score is 0.6 x rule-based +
\* 0.4 x LLM and the hybrid components are the fixed blends (a component the LLM
\* left out keeps its rule-based score), all reported rounded to two decimals;
\* with component scores that are null or hold a value that is no number the
\* hybrid fields are the rule-based ones.
C5_BlendWhenWellFormed ==
    HasReturned /\ locals.llm_risk_score.k = "num" =>
        IF WellFormedComponents THEN BlendedAsStated ELSE HybridIsRuleBased

\* a blended assessment whose hybrid overall score is not the weighted sum of its
\* hybrid components
C5_Witness ==
    /\ HasReturned
    /\ locals.llm_risk_score.k = "num"
    /\ WellFormedComponents
    /\ \A v \in {locals.llm_component_scores.transaction_patterns,
                 locals.llm_component_scores.protocol_interactions,
                 locals.llm_component_scores.asset_concentration,
                 locals.llm_component_scores.behavioral_patterns} : v.k = "num"
    /\ 100 * locals.overall_risk
           # 25 * locals.primary_components.transaction_patterns
             + 30 * locals.primary_components.protocol_interactions
             + 20 * locals.primary_components.asset_concentration
             + 25 * locals.primary_components.behavioral_patterns
    /\ locals.llm_risk_score.v # locals.rule_based_risk

\* C6: the rule-based overall score is 0.25 x transaction + 0.30 x protocol +
\* 0.20 x concentration + (0.15 + 0.10) x behavioral, and the weights sum to 1.0.
C6_RuleBasedIsWeightedSum ==
    HasReturned =>
        LET r == locals.rule
            w == assessment.component_weights
        IN  /\ 100 * locals.rule_based_risk
                   = 25 * r.transaction_patterns + 30 * r.protocol_interactions
                     + 20 * r.asset_concentration
                     + 15 * r.behavioral_patterns + 10 * r.behavioral_patterns
            /\ assessment.scoring_methods.rule_based.overall_score
                   = Round2(locals.rule_based_risk)
            /\ assessment.scoring_methods.rule_based.components = RoundFour(r)
            /\ w.transaction_patterns + w.protocol_interactions + w.asset_concentration
                   + w.activity_frequency + w.failure_rate = 100

\* an assessment of four different component scores
C6_Witness ==
    /\ HasReturned
    /\ Cardinality({locals.rule.transaction_patterns, locals.rule.protocol_interactions,
                    locals.rule.asset_concentration, locals.rule.behavioral_patterns}) = 4
    /\ locals.rule_based_risk > Pt(0)

\* C7: the risk level is the step function of the hybrid overall score s the
\* engine computed: VERY_HIGH iff s >= 80, HIGH iff 60 <= s < 80, MEDIUM iff
\* 40 <= s < 60, LOW iff 20 <= s < 40, VERY_LOW iff s < 20, and the description
\* is the fixed string of the level.
C7_LevelIsStepFunction ==
    HasReturned =>
        LET s == locals.overall_risk
            level == assessment.risk_level
        IN  /\ level = "VERY_HIGH" <=> s >= Pt(80)
            /\ level = "HIGH" <=> Pt(60) <= s /\ s < Pt(80)
            /\ level = "MEDIUM" <=> Pt(40) <= s /\ s < Pt(60)
            /\ level = "LOW" <=> Pt(20) <= s /\ s < Pt(40)
            /\ level = "VERY_LOW" <=> s < Pt(20)
            /\ assessment.scoring_methods.hybrid.risk_level = level
            /\ assessment.risk_description =
                   CASE level = "VERY_HIGH" ->
                            "Extremely risky wallet with multiple severe red flags"
                     [] level = "HIGH" -> "High-risk wallet requiring significant caution"
                     [] level = "MEDIUM" -> "Medium risk with some concerning factors"
                     [] level = "LOW" -> "Low risk with generally safe behavior patterns"
                     [] level = "VERY_LOW" ->
                            "Very low risk, highly conservative wallet behavior"

\* a blended score of exactly 80 is VERY_HIGH
C7_Witness ==
    /\ HasReturned
    /\ locals.branch = "hybrid"
    /\ locals.overall_risk = Pt(80)
    /\ assessment.risk_level = "VERY_HIGH"

\* C9: when an LLM score is present and the list is not cut, the advisory of a
\* component is in the recommendations exactly when the hybrid score of that
\* component is above 70.
C9_AdvisoriesFollowHybridScores ==
    HasReturned /\ locals.branch = "hybrid" /\ Len(assessment.recommendations) < 10 =>
        LET h == locals.primary_components
            recs == assessment.recommendations
        IN  /\ InList("Transaction Patterns: Review transaction success rates and activity patterns", recs)
                <=> h.transaction_patterns > Pt(70)
            /\ InList("Protocol Risk: Wallet interacts with high-risk DeFi protocols", recs)
                <=> h.protocol_interactions > Pt(70)
            /\ InList("Asset Concentration: Consider portfolio diversification", recs)
                <=> h.asset_concentration > Pt(70)
            /\ InList("Behavioral Risk: Unusual transaction patterns detected", recs)
                <=> h.behavioral_patterns > Pt(70)

----------------------------------------------------------------------------
(* Properties of the analyzers (SpecAnalyzers) *)

\* C3: the risk_score an analyzer returns lies in [0, 100], on the fallback
\* paths and when the sum of the adjustments leaves that range.
C3_ComponentScoreInRange ==
    component_result.analyzer # "none" /\ ~component_result.result.raised =>
        InRange(component_result.result.risk_score)

\* the transaction analyzer has returned 100 for adjustments that sum to more
C3_Witness ==
    /\ component_result.analyzer = "transaction"
    /\ ~patterns.error
    /\ patterns.total_transactions > 0
    /\ TransactionPasses(patterns, patterns.total_transactions).risk_score > Pt(100)
    /\ component_result.result.risk_score = Pt(100)

\* C11: whenever the protocol analysis is missing, has no key "protocols" or
\* has an empty protocol list, the protocol analyzer returns exactly 0 with one
\* low-risk reason, whatever the other fields of the analysis hold
C11_NoProtocolsScoreZero ==
    /\ component_result.analyzer = "protocol"
    /\ \/ protocol_analysis.empty
       \/ ~protocol_analysis.has_protocols
       \/ protocol_analysis.protocols = <<>>
    => /\ ~component_result.result.raised
       /\ component_result.result.risk_score = Pt(0)
       /\ Len(component_result.result.reasons) = 1
       /\ component_result.result.reasons[1] \in
              {"No DeFi protocol interactions detected - Low Risk",
               "No DeFi protocol interactions - Low Risk"}

\* the analyzer has returned 0 for an empty list that comes with a high average
\* risk, a high-risk count, a TVL and a very-high-risk count
C11_Witness ==
    /\ component_result.analyzer = "protocol"
    /\ ~protocol_analysis.empty
    /\ protocol_analysis.has_protocols
    /\ protocol_analysis.protocols = <<>>
    /\ protocol_analysis.raw_average_risk = Pt(85)
    /\ protocol_analysis.high_risk_protocols = 1
    /\ protocol_analysis.total_tvl_interacted = 50001
    /\ protocol_analysis.risk_distribution.very_high = 3
    /\ component_result.result.risk_score = Pt(0)
    /\ component_result.result.reasons = <<"No DeFi protocol interactions - Low Risk">>

\* C12: whenever the patterns carry the error marker or count no transaction,
\* the transaction analyzer returns exactly 90, whatever the other fields hold,
\* with one reason: "no data" for the error marker, "inactive" for a zero count
C12_NoTransactionsScoreNinety ==
    /\ component_result.analyzer = "transaction"
    /\ (patterns.error \/ patterns.total_transactions = 0)
    => /\ ~component_result.result.raised
       /\ component_result.result.risk_score = Pt(90)
       /\ component_result.result.reasons =
              IF patterns.error THEN <<"No transaction data available">>
                                ELSE <<"Inactive wallet - no transactions">>

\* the analyzer has returned 90 for the error marker on patterns that count 20
\* transactions and would fire every penalty
C12_Witness ==
    /\ component_result.analyzer = "transaction"
    /\ patterns.error
    /\ patterns.total_transactions = 20
    /\ patterns.gas_analysis.avg_gas_price = 250
    /\ component_result.result.risk_score = Pt(90)
    /\ component_result.result.reasons = <<"No transaction data available">>

\* the rule a group fires for the patterns, as <<adjustment, reason>>, and
\* <<0, "">> if it fires none; ratios are over total_transactions, the
\* frequency is in hundredths of a transaction per day
SuccessGroup ==
    LET n == patterns.successful_transactions
        t == patterns.total_transactions
    IN  IF n * 100 < 70 * t THEN <<25, "Low success rate">>
        ELSE IF n * 100 < 85 * t THEN <<10, "Moderate success rate">>
        ELSE IF n * 100 > 95 * t THEN <<0 - 10, "High success rate">>
        ELSE <<0, "">>

FrequencyGroup ==
    LET f == patterns.time_analysis.activity_frequency
    IN  IF f > 2000 THEN <<15, "Very high activity">>
        ELSE IF f > 1000 THEN <<5, "High activity">>
        ELSE IF f < 10 THEN <<15, "Very low activity">>
        ELSE IF f >= 100 /\ f <= 500 THEN <<0 - 5, "Normal activity">>
        ELSE <<0, "">>

HighValueGroup ==
    LET n == patterns.high_value_transactions
        t == patterns.total_transactions
    IN  IF n * 10 > 5 * t THEN <<15, "High value transaction ratio">>
        ELSE IF n * 10 > 3 * t THEN <<5, "Moderate high-value transactions">>
        ELSE <<0, "">>

ContractGroup ==
    LET n == patterns.contract_interactions
        t == patterns.total_transactions
    IN  IF n * 10 > 9 * t THEN <<15, "Very high DeFi usage">>
        ELSE IF n * 10 > 7 * t THEN <<5, "High DeFi usage">>
        ELSE IF n * 10 < t THEN <<0 - 5, "Low DeFi usage">>
        ELSE <<0, "">>

RecentGroup ==
    IF patterns.recent_activity = 0 /\ patterns.total_transactions > 10
    THEN <<20, "No recent activity (30 days)">>
    ELSE IF patterns.recent_activity > 50 THEN <<10, "Very active recently">>
    ELSE <<0, "">>

GasGroup ==
    IF patterns.gas_analysis.avg_gas_price > 100
    THEN <<10, "High gas prices">> ELSE <<0, "">>

DiversityGroup ==
    IF patterns.unique_addresses * 10 < patterns.total_transactions
    THEN <<10, "Low address diversity">> ELSE <<0, "">>

SevenGroups ==
    <<SuccessGroup, FrequencyGroup, HighValueGroup, ContractGroup, RecentGroup,
      GasGroup, DiversityGroup>>

\* the reason of a group, if it fired a rule
Fired(group) == IF group[2] = "" THEN <<>> ELSE <<group[2]>>

\* C21: for patterns without error marker that count a transaction, the
\* transaction analyzer evaluates all seven rule groups, each firing at most one
\* rule: the score is 50 plus the adjustments of the fired rules, clamped to
\* [0, 100], and the reasons are those of the fired rules in group order
C21_SevenGroupsNoEarlyExit ==
    /\ component_result.analyzer = "transaction"
    /\ ~patterns.error
    /\ patterns.total_transactions > 0
    => LET g == SevenGroups
       IN  /\ component_result.result.risk_score =
                 Clamp(Pt(50 + g[1][1] + g[2][1] + g[3][1] + g[4][1] + g[5][1]
                             + g[6][1] + g[7][1]))
           /\ component_result.result.reasons =
                 Fired(g[1]) \o Fired(g[2]) \o Fired(g[3]) \o Fired(g[4])
                 \o Fired(g[5]) \o Fired(g[6]) \o Fired(g[7])

\* the analyzer has returned 95 for patterns that fire a rule in every group,
\* two of them bonuses
C21_Witness ==
    /\ component_result.analyzer = "transaction"
    /\ ~patterns.error
    /\ patterns.total_transactions > 0
    /\ \A i \in 1..7 : SevenGroups[i][2] # ""
    /\ SuccessGroup[1] < 0
    /\ ContractGroup[1] < 0
    /\ component_result.result.risk_score = Pt(95)
    /\ Len(component_result.result.reasons) = 7

\* the adjustments of the protocol analyzer, in points scaled by Pt; the TVL
\* is in millions of dollars
HighRiskPart ==
    LET n == protocol_analysis.high_risk_protocols
        t == protocol_analysis.total_protocols
    IN  IF n = 0 THEN 0
        ELSE IF n >= t THEN Pt(30)
        ELSE (n * Pt(30)) \div t

DiversificationPart ==
    LET d == protocol_analysis.diversification_score
    IN  IF d = 1 THEN Pt(15) ELSE IF d < 3 THEN Pt(5) ELSE 0 - Pt(10)

TVLPart ==
    LET tvl == protocol_analysis.total_tvl_interacted
    IN  IF tvl > 50000 THEN 0 - Pt(15)
        ELSE IF tvl > 10000 THEN 0 - Pt(10)
        ELSE IF tvl > 1000 THEN 0 - Pt(5)
        ELSE IF tvl < 100 THEN Pt(15)
        ELSE 0

VeryHighPart == protocol_analysis.risk_distribution.very_high * Pt(5)

\* a protocol analysis with a protocol list that is not empty, and whose
\* high-risk ratio is defined
ListedProtocols ==
    /\ ~protocol_analysis.empty
    /\ protocol_analysis.has_protocols
    /\ protocol_analysis.protocols # <<>>
    /\ (protocol_analysis.high_risk_protocols = 0
        \/ protocol_analysis.total_protocols > 0)

\* C22: for a protocol list that is not empty the protocol analyzer returns the
\* raw average risk plus min(high-risk ratio x 30, 30), plus the
\* diversification adjustment, plus at most one TVL adjustment, plus 5 per
\* very-high-risk protocol, clamped to [0, 100]; the upstream concentration
\* penalty adds a reason and nothing to the score
C22_ProtocolScoreFormula ==
    component_result.analyzer = "protocol" /\ ListedProtocols =>
        /\ ~component_result.result.raised
        /\ component_result.result.risk_score =
              Clamp(protocol_analysis.raw_average_risk + HighRiskPart
                    + DiversificationPart + TVLPart + VeryHighPart)
        /\ InList("Protocol concentration risk", component_result.result.reasons)
              <=> protocol_analysis.concentration_penalty > 0

\* the analyzer has returned 75 = 50 + 10 + 15 - 5 + 5 for an analysis that
\* carries a concentration penalty of 15
C22_Witness ==
    /\ component_result.analyzer = "protocol"
    /\ ListedProtocols
    /\ protocol_analysis.concentration_penalty = 15
    /\ protocol_analysis.raw_average_risk = Pt(50)
    /\ HighRiskPart = Pt(10)
    /\ DiversificationPart = Pt(15)
    /\ TVLPart = 0 - Pt(5)
    /\ VeryHighPart = Pt(5)
    /\ component_result.result.risk_score = Pt(75)
    /\ InList("Protocol concentration risk", component_result.result.reasons)

\* each pass of the asset analyzer applied on its own to the balances, from a
\* score of 0 and no reason
DiversificationAlone ==
    Asset_analyze_diversification(balances.eth_balance, Len(balances.tokens), 0, <<>>)

EthHoldingsAlone == Asset_analyze_eth_holdings(balances.eth_balance, 0, <<>>)

TokenCompositionAlone == Asset_analyze_token_composition(balances.tokens, 0, <<>>)

\* C23: the three passes of the asset analyzer are independent and applied in
\* the order diversification, ETH size, stablecoins: the score is 50 plus what
\* each pass adds on its own and the reasons are theirs in that order; so a
\* wallet with no token and no ETH gets 50 + 30 + 10 = 90 and the reasons
\* "No significant assets detected", "Very low ETH balance"
C23_AssetPenaltiesCompound ==
    component_result.analyzer = "concentration" =>
        /\ component_result.result.risk_score =
              Clamp(Pt(50) + DiversificationAlone.risk_score
                    + EthHoldingsAlone.risk_score + TokenCompositionAlone.risk_score)
        /\ component_result.result.reasons =
              DiversificationAlone.reasons \o EthHoldingsAlone.reasons
              \o TokenCompositionAlone.reasons
        /\ balances.tokens = <<>> /\ balances.eth_balance = 0 =>
              /\ component_result.result.risk_score = Pt(90)
              /\ component_result.result.reasons =
                    <<"No significant assets detected", "Very low ETH balance">>

\* the asset analyzer has returned for the wallet with no token and no ETH
C23_Witness ==
    /\ component_result.analyzer = "concentration"
    /\ balances.tokens = <<>>
    /\ balances.eth_balance = 0
    /\ DiversificationAlone.risk_score = Pt(30)
    /\ EthHoldingsAlone.risk_score = Pt(10)
    /\ component_result.result.risk_score = Pt(90)

\* C30: the passes of the asset analyzer end between 25 and 95 for every ETH
\* balance and token list, so the clamp changes nothing and the returned score
\* is between 25 and 95
C30_AssetScoreNeedsNoClamp ==
    component_result.analyzer = "concentration" =>
        /\ Pt(25) <= AssetPasses(balances).risk_score
        /\ AssetPasses(balances).risk_score <= Pt(95)
        /\ component_result.result.risk_score = AssetPasses(balances).risk_score

\* the asset analyzer has returned the lowest score, 25 = 50 - 10 - 15, for ten
\* tokens or more of which three or more are stablecoins
C30_Witness ==
    /\ component_result.analyzer = "concentration"
    /\ Len(balances.tokens) >= 10
    /\ CountStable(balances.tokens) > 3
    /\ EthHoldingsAlone.risk_score = 0
    /\ component_result.result.risk_score = Pt(25)

\* the patterns with equal inflow and outflow, for which no value-flow rule fires
EvenFlow ==
    [patterns EXCEPT !.value_analysis.total_value_in = 10,
                     !.value_analysis.total_value_out = 10]

\* what the value-flow pass has added to the score of the patterns
ValueFlowAdded ==
    BehavioralPasses(patterns).risk_score - BehavioralPasses(EvenFlow).risk_score

\* the value-flow reasons among the returned reasons
ValueFlowReasons ==
    SelectSeq(component_result.result.reasons,
              LAMBDA r : r \in {"Heavy fund outflow pattern", "Moderate outflow pattern",
                                "Accumulation pattern"})

\* C24 as stated: with a positive inflow, an outflow of at least 3 times the
\* inflow adds 20, otherwise one of at least 1.5 times adds 5, otherwise an
\* inflow of at least 2 times the outflow subtracts 5, boundaries included
C24_ValueFlowInclusive ==
    /\ component_result.analyzer = "behavioral"
    /\ ~patterns.error
    /\ patterns.value_analysis.total_value_in > 0
    => LET value_in == patterns.value_analysis.total_value_in
           value_out == patterns.value_analysis.total_value_out
       IN  IF value_out >= 3 * value_in
           THEN /\ ValueFlowAdded = Pt(20)
                /\ ValueFlowReasons = <<"Heavy fund outflow pattern">>
           ELSE IF 2 * value_out >= 3 * value_in
           THEN /\ ValueFlowAdded = Pt(5)
                /\ ValueFlowReasons = <<"Moderate outflow pattern">>
           ELSE IF value_in >= 2 * value_out
           THEN /\ ValueFlowAdded = 0 - Pt(5)
                /\ ValueFlowReasons = <<"Accumulation pattern">>
           ELSE /\ ValueFlowAdded = 0
                /\ ValueFlowReasons = <<>>

\* C24, amended: the value-flow pass compares strictly and for any inflow: an
\* outflow of more than 3 times the inflow adds 20, otherwise one of more than
\* 1.5 times adds 5, otherwise an inflow of more than 2 times the outflow
\* subtracts 5; an outflow of exactly 3 times the inflow gets the +5 of the
\* moderate rule, exactly 1.5 times and an inflow of exactly 2 times the
\* outflow get nothing
C24_ValueFlowStrict ==
    component_result.analyzer = "behavioral" /\ ~patterns.error =>
        LET value_in == patterns.value_analysis.total_value_in
            value_out == patterns.value_analysis.total_value_out
        IN  IF value_out > 3 * value_in
            THEN /\ ValueFlowAdded = Pt(20)
                 /\ ValueFlowReasons = <<"Heavy fund outflow pattern">>
            ELSE IF 2 * value_out > 3 * value_in
            THEN /\ ValueFlowAdded = Pt(5)
                 /\ ValueFlowReasons = <<"Moderate outflow pattern">>
            ELSE IF value_in > 2 * value_out
            THEN /\ ValueFlowAdded = 0 - Pt(5)
                 /\ ValueFlowReasons = <<"Accumulation pattern">>
            ELSE /\ ValueFlowAdded = 0
                 /\ ValueFlowReasons = <<>>

\* the behavioral analyzer has returned for an outflow of exactly 3 times the
\* inflow, with the moderate rule fired
C24_Witness ==
    /\ component_result.analyzer = "behavioral"
    /\ ~patterns.error
    /\ patterns.value_analysis.total_value_in > 0
    /\ patterns.value_analysis.total_value_out
          = 3 * patterns.value_analysis.total_value_in
    /\ ValueFlowAdded = Pt(5)
    /\ ValueFlowReasons = <<"Moderate outflow pattern">>

\* C16: on every path, the missing-data fallbacks included, an analyzer
\* returns a record with the three fields risk_score, reasons and metrics
C16_UniformComponentResult ==
    component_result.analyzer # "none" /\ ~component_result.result.raised =>
        component_result.result.keys = {"risk_score", "reasons", "metrics"}

\* three protocols of risk 10, none of them high-risk or very-high-risk, in
\* three categories, with a total TVL of $20B
ThreeSafeProtocols ==
    /\ ~protocol_analysis.empty
    /\ protocol_analysis.has_protocols
    /\ protocol_analysis.protocols = <<10, 10, 10>>
    /\ protocol_analysis.raw_average_risk = Pt(10)
    /\ protocol_analysis.high_risk_protocols = 0
    /\ protocol_analysis.risk_distribution.very_high = 0
    /\ protocol_analysis.diversification_score = 3
    /\ protocol_analysis.total_tvl_interacted = 20000

\* C14: for three protocols of risk 10 in three categories with a TVL of $20B
\* the passes of the protocol analyzer compute 10 - 10 (diversification bonus)
\* - 10 (high-TVL bonus) = -10, and the analyzer returns the clamped score 0
C14_SafeProtocolsClampedAtZero ==
    component_result.analyzer = "protocol" /\ ThreeSafeProtocols =>
        /\ ProtocolPasses(protocol_analysis).risk_score =
              Pt(10) - Pt(PROTOCOL_THRESHOLDS.diversification_bonus)
                     - Pt(PROTOCOL_THRESHOLDS.high_tvl_bonus)
        /\ ProtocolPasses(protocol_analysis).risk_score = - Pt(10)
        /\ ProtocolPasses(protocol_analysis).reasons =
              <<"Good diversification: categories", "High TVL protocols">>
        /\ ~component_result.result.raised
        /\ component_result.result.risk_score = Pt(0)

\* the protocol analyzer has returned for the three safe protocols, whose
\* passes end below 0
C14_Witness ==
    /\ component_result.analyzer = "protocol"
    /\ ThreeSafeProtocols
    /\ ProtocolPasses(protocol_analysis).risk_score < 0
    /\ component_result.result.risk_score = Pt(0)

----------------------------------------------------------------------------
(* The risk distribution of the assessment (Spec) *)

\* the four named scores the engine hands to categorize_risk_components
PrimaryNamed ==
    { <<"transaction", locals.primary_components.transaction_patterns>>,
      <<"protocol", locals.primary_components.protocol_interactions>>,
      <<"concentration", locals.primary_components.asset_concentration>>,
      <<"behavioral", locals.primary_components.behavioral_patterns>> }

Occurrences(name, list) == Cardinality({i \in 1..Len(list) : list[i] = name})

\* C25: the risk distribution of the assessment partitions the four hybrid
\* component scores: every component is in exactly one bucket, in high iff its
\* score is 70 or more, in medium iff it is 40 or more and below 70, in low iff
\* it is below 40
C25_BucketsPartitionComponents ==
    HasReturned =>
        LET d == assessment.risk_distribution
        IN  /\ Len(d.high) + Len(d.medium) + Len(d.low) = 4
            /\ \A c \in PrimaryNamed :
                  /\ Occurrences(c[1], d.high) + Occurrences(c[1], d.medium)
                        + Occurrences(c[1], d.low) = 1
                  /\ InList(c[1], d.high) <=> c[2] >= Pt(70)
                  /\ InList(c[1], d.medium) <=> (c[2] >= Pt(40) /\ c[2] < Pt(70))
                  /\ InList(c[1], d.low) <=> c[2] < Pt(40)

\* the call has returned with a component of exactly 70 in the high bucket and
\* a component that the five levels call HIGH (60 or more) in the medium bucket
C25_Witness ==
    /\ HasReturned
    /\ \E c \in PrimaryNamed :
          c[2] = Pt(70) /\ InList(c[1], assessment.risk_distribution.high)
    /\ \E c \in PrimaryNamed :
          /\ c[2] >= Pt(60)
          /\ c[2] < Pt(70)
          /\ get_risk_level_description(c[2])[1] = "HIGH"
          /\ InList(c[1], assessment.risk_distribution.medium)

\* C26: the methodology of the hybrid sub-report reads "60% rule-based + 40%
\* Gemini" exactly when the primary scores were blended with the LLM scores,
\* and "100% rule-based" exactly when they are the rule-based scores, in which
\* case the llm-based overall score is null and its level "N/A"
C26_MethodologyTellsTheBlend ==
    HasReturned =>
        LET m == assessment.scoring_methods
        IN  /\ m.hybrid.methodology = "60% rule-based + 40% Gemini"
                  <=> locals.branch = "hybrid"
            /\ m.hybrid.methodology = "100% rule-based (Gemini unavailable)"
                  <=> locals.branch \in {"rule", "except"}
            /\ locals.branch \in {"rule", "except"} =>
                  /\ m.llm_based.overall_score = Null
                  /\ m.llm_based.risk_level = "N/A"

\* C27: the five-level classification of the returned overall score, which is
\* rounded to two decimals, is the returned risk level
C27_LevelOfReportedScore ==
    HasReturned =>
        assessment.risk_level
            = get_risk_level_description(assessment.overall_risk_score)[1]

CriticalAdvisory ==
    "CRITICAL: Extreme caution advised - multiple high-risk factors detected"

HighRiskAdvisory ==
    "HIGH RISK: Significant caution required before any interactions"

LowRiskAdvisory ==
    "LOW RISK: Generally safe wallet with conservative behavior"

\* C28: an assessment of level VERY_HIGH carries the CRITICAL advisory, one of
\* level HIGH the HIGH RISK advisory, and the LOW RISK advisory comes only with
\* the levels LOW and VERY_LOW
C28_BandAdvisoryMatchesLevel ==
    HasReturned =>
        /\ assessment.risk_level = "VERY_HIGH" =>
              InList(CriticalAdvisory, assessment.recommendations)
        /\ assessment.risk_level = "HIGH" =>
              InList(HighRiskAdvisory, assessment.recommendations)
        /\ InList(LowRiskAdvisory, assessment.recommendations) =>
              assessment.risk_level \in {"LOW", "VERY_LOW"}

\* the four components as <<name, tenths of the rule-based share in the blend>>
BlendShares ==
    { <<"transaction_patterns", 7>>, <<"protocol_interactions", 5>>,
      <<"asset_concentration", 6>>, <<"behavioral_patterns", 7>> }

\* C29: in a blended assessment a component the LLM gave no score for has its
\* rule-based score as hybrid score, computed and reported, and a component it
\* did score is blended with its fixed ratio
C29_OmittedComponentKeepsRuleScore ==
    HasReturned /\ locals.branch = "hybrid" =>
        \A c \in BlendShares :
            LET name == c[1]
                llm_value == locals.llm_component_scores[name]
                rule_score == locals.rule[name]
                hybrid_score == locals.primary_components[name]
            IN  IF llm_value.k = "absent"
                THEN /\ hybrid_score = rule_score
                     /\ assessment.component_scores[name]
                           = assessment.scoring_methods.rule_based.components[name]
                     /\ assessment.scoring_methods.hybrid.components[name]
                           = assessment.scoring_methods.rule_based.components[name]
                ELSE /\ 10 * hybrid_score = c[2] * rule_score + (10 - c[2]) * llm_value.v
                     /\ assessment.component_scores[name] = Round2(hybrid_score)

\* a blended assessment in which the LLM scored the transaction component and
\* left out the behavioral one, whose rule-based score is not 50
C29_Witness ==
    /\ HasReturned
    /\ locals.branch = "hybrid"
    /\ locals.llm_risk_score.v # locals.rule_based_risk
    /\ locals.llm_component_scores.transaction_patterns.k = "num"
    /\ locals.primary_components.transaction_patterns # locals.rule.transaction_patterns
    /\ locals.llm_component_scores.behavioral_patterns.k = "absent"
    /\ locals.rule.behavioral_patterns # Pt(50)
    /\ locals.primary_components.behavioral_patterns = locals.rule.behavioral_patterns

----------------------------------------------------------------------------
(* The wallet that has nothing (Spec) *)

\* the arguments of the scenario: no transaction counted, no protocol, no token
\* and no ETH
ZeroWallet ==
    /\ patterns.total_transactions = 0
    /\ protocol_analysis.protocols = <<>>
    /\ balances.tokens = <<>>
    /\ balances.eth_balance = 0

RuleBasedReported == assessment.scoring_methods.rule_based

\* C13 as stated: for the wallet that has nothing the rule-based components are
\* transaction 90, protocol 0, concentration 80 and the behavioral error
\* fallback 60, and the rule-based overall score lies between 40 and 70
C13_ZeroWalletAsStated ==
    HasReturned /\ ZeroWallet =>
        /\ RuleBasedReported.components = FourScores(Pt(90), Pt(0), Pt(80), Pt(60))
        /\ Pt(40) <= RuleBasedReported.overall_score
        /\ RuleBasedReported.overall_score <= Pt(70)

\* C13, amended: for the wallet that has nothing the rule-based components are
\* transaction 90, protocol 0, concentration 90 (50 + 30 no assets + 10 dust)
\* and behavioral 60 if the patterns carry the error marker, 45 (50 - 5 for a
\* low gas price) if they do not; the rule-based overall score is 55.5 and
\* 51.75 respectively, between 40 and 70
C13_ZeroWalletRuleBased ==
    HasReturned /\ ZeroWallet =>
        /\ RuleBasedReported.components =
              FourScores(Pt(90), Pt(0), Pt(90), IF patterns.error THEN Pt(60) ELSE Pt(45))
        /\ RuleBasedReported.overall_score =
              IF patterns.error THEN Cp(5550) ELSE Cp(5175)
        /\ Pt(40) <= RuleBasedReported.overall_score
        /\ RuleBasedReported.overall_score <= Pt(70)

\* the call has returned for the wallet that has nothing, without error marker
C13_Witness ==
    /\ HasReturned
    /\ ZeroWallet
    /\ ~patterns.error
    /\ RuleBasedReported.components.asset_concentration = Pt(90)
    /\ RuleBasedReported.overall_score = Cp(5175)

\* C15: when the text the LLM call returned cannot be parsed, the assessment
\* is the one of a collaborator without data: its hybrid fields equal the
\* rule-based fields and it has no llm-based overall score
C15_UnparsableMeansNoLLMData ==
    /\ HasReturned
    /\ gemini.api_key
    /\ ~gemini.prepare_raises
    /\ gemini.response.kind = "invalid"
    => /\ HybridIsRuleBased
       /\ assessment.scoring_methods.llm_based.overall_score = Null

\* C17: for every combination of arguments, a call of the engine (here with a
\* collaborator that has no credential) finishes without raising and returns
\* an assessment
C17_NoFatalError ==
    calls > 0 /\ ~gemini.api_key => HasReturned

\* C20: risk_factors is the four analyzers' reason lists joined in the order
\* transaction, protocol, concentration, behavioral: every reason of every list
\* is there once, in its place, and the length is the sum of the four lengths
C20_RiskFactorsConcatenation ==
    HasReturned =>
        LET t == TransactionPatternAnalyzer_calculate_risk(patterns).reasons
            p == ProtocolRiskAnalyzer_calculate_risk(protocol_analysis).reasons
            c == AssetConcentrationAnalyzer_calculate_risk(balances).reasons
            b == BehavioralPatternAnalyzer_calculate_risk(patterns).reasons
            f == assessment.risk_factors
        IN  /\ Len(f) = Len(t) + Len(p) + Len(c) + Len(b)
            /\ \A i \in 1..Len(t) : f[i] = t[i]
            /\ \A i \in 1..Len(p) : f[Len(t) + i] = p[i]
            /\ \A i \in 1..Len(c) : f[Len(t) + Len(p) + i] = c[i]
            /\ \A i \in 1..Len(b) : f[Len(t) + Len(p) + Len(c) + i] = b[i]

\* the call has returned for arguments on which every analyzer gives two
\* reasons or more
C20_Witness ==
    /\ HasReturned
    /\ Len(TransactionPatternAnalyzer_calculate_risk(patterns).reasons) >= 2
    /\ Len(ProtocolRiskAnalyzer_calculate_risk(protocol_analysis).reasons) >= 2
    /\ Len(AssetConcentrationAnalyzer_calculate_risk(balances).reasons) >= 2
    /\ Len(BehavioralPatternAnalyzer_calculate_risk(patterns).reasons) >= 2
    /\ Len(assessment.risk_factors) >= 8

----------------------------------------------------------------------------
(* Properties of a call around its request to the LLM service (SpecLLMCall) *)

\* C18: a request to the LLM service that gets no answer is cut off at the
\* configured timeout: no request is in flight for more than 30 seconds
C18_RequestCutOffAtTimeout ==
    llm_call.phase = "in_flight" => llm_call.elapsed <= LLM_CONFIG.timeout_seconds

\* what the call returns for the same arguments when the collaborator has no key
WithoutLLM == calculate_overall_risk_score(patterns, protocol_analysis, balances, NoKey)

\* C19: when the request to the LLM service goes out the four analyzer results
\* and the rule-based score are computed, and whatever the collaborator then
\* does, the rule_based sub-report and risk_factors of the assessment are those
\* of the call without collaborator
C19_RuleBasedWhateverLLMDoes ==
    /\ llm_call.phase \in {"in_flight", "answered"} =>
          /\ locals.branch = "pending"
          /\ locals.rule_based_risk = Locals(patterns, protocol_analysis, balances,
                                             NoKey).rule_based_risk
          /\ locals.rule = Locals(patterns, protocol_analysis, balances, NoKey).rule
    /\ HasReturned =>
          /\ WithoutLLM.status = "returned"
          /\ assessment.scoring_methods.rule_based = WithoutLLM.scoring_methods.rule_based
          /\ assessment.scoring_methods.rule_based.overall_score
                = Round2(Locals(patterns, protocol_analysis, balances, NoKey).rule_based_risk)
          /\ assessment.risk_factors = WithoutLLM.risk_factors

\* the call has returned after a request that was in flight, with hybrid scores
\* that are not the rule-based ones
C19_Witness ==
    /\ HasReturned
    /\ llm_call.elapsed > 0
    /\ locals.branch = "hybrid"
    /\ assessment.overall_risk_score # assessment.scoring_methods.rule_based.overall_score
    /\ assessment.component_scores # assessment.scoring_methods.rule_based.components
    /\ assessment.risk_factors # <<>>

----------------------------------------------------------------------------
(* Properties of generate_recommendations (SpecRecommend) *)

\* the advisories of the rule table, in the order of its rules
RuleTable ==
    <<"CRITICAL: Extreme caution advised - multiple high-risk factors detected",
      "HIGH RISK: Significant caution required before any interactions",
      "LOW RISK: Generally safe wallet with conservative behavior",
      "Transaction Patterns: Review transaction success rates and activity patterns",
      "Protocol Risk: Wallet interacts with high-risk DeFi protocols",
      "Suggestion: Research protocol security audits and TVL stability",
      "Asset Concentration: Consider portfolio diversification",
      "Tip: Spread holdings across multiple assets and protocols",
      "Behavioral Risk: Unusual transaction patterns detected",
      "Recommendation: Verify wallet ownership and transaction authenticity",
      "Gas Optimization: Consider using lower gas prices during off-peak hours",
      "New Wallet: Monitor activity patterns as wallet establishes history",
      "Large Transactions: Verify transaction authenticity for high-value transfers",
      "Stablecoin Holdings: Good risk mitigation through stable assets",
      "Portfolio Management: Continue maintaining diversified holdings",
      "High-Value Activity: Implement additional security measures for large transactions",
      "Activity Monitoring: Regular activity helps establish trust patterns">>

\* the place of an advisory in the rule table
Rank(advisory) == CHOOSE i \in 1..Len(RuleTable) : RuleTable[i] = advisory

\* the advisories the arguments trigger, before the list is cut
Triggered ==
    AllAdvisories(rec_args.overall_risk, rec_args.component_risks, rec_args.reasons)

\* C8: generate_recommendations returns at most 10 strings, none of them twice,
\* and they are the first 10 (or all, if fewer) of the triggered advisories, in
\* the order of the rule table.
C8_FirstTenInTableOrder ==
    rec_result.made =>
        LET list == rec_result.list
        IN  /\ Len(list) <= 10
            /\ \A i, j \in 1..Len(list) : i < j => list[i] # list[j]
            /\ \A i \in 1..Len(list) : InList(list[i], RuleTable)
            /\ \A i, j \in 1..Len(list) : i < j => Rank(list[i]) < Rank(list[j])
            /\ Len(list) = Min2(10, Len(Triggered))
            /\ \A i \in 1..Len(list) : list[i] = Triggered[i]
            /\ \A i \in 1..Len(Triggered) :
                   i > Len(list) => Rank(Triggered[i]) > Rank(list[Len(list)])

\* more than 10 advisories were triggered and the list was cut
C8_Witness ==
    /\ rec_result.made
    /\ Len(Triggered) > 10
    /\ Len(rec_result.list) = 10

----------------------------------------------------------------------------
(* Properties of a session of calls (SpecSession) *)

====
